---- MODULE Spec2Model ----
(***************************************************************************)
(* Balance workbook ingestion: BalanceTransformer (app/balance_transformer) *)
(* and the sheet parser of app/etl (parse_balance_workbook).                *)
(*                                                                          *)
(* Text is modelled by TLA+ strings (Len, SubSeq and \o act on them), so    *)
(* normalisation, header canonicalisation and the regular expressions of    *)
(* the source are computed character by character.                          *)
(* Numbers are fixed point: the integer n stands for the float n / Scale.   *)
(***************************************************************************)
EXTENDS Integers, Sequences, FiniteSets, TLC

(***************************************************************************)
(* Characters and strings                                                   *)
(***************************************************************************)
Char(s, i) == SubSeq(s, i, i)

\* U+00A0, the no-break space
NBSP == " "
\* U+2013 and U+2014 are outside the characters a string of this module may
\* hold; these two Latin-1 characters stand for them.
EN_DASH == "¯"
EM_DASH == "¬"

DigitSet  == {"0", "1", "2", "3", "4", "5", "6", "7", "8", "9"}
LowerSet  == {"a", "b", "c", "d", "e", "f", "g", "h", "i", "j", "k", "l", "m", "n", "o", "p", "q", "r", "s", "t", "u", "v", "w", "x", "y", "z"}
UpperSet  == {"A", "B", "C", "D", "E", "F", "G", "H", "I", "J", "K", "L", "M", "N", "O", "P", "Q", "R", "S", "T", "U", "V", "W", "X", "Y", "Z"}
\* the letters with a diacritic that texts of this module use
AccentSet == {"Á", "É", "Í", "Ó", "Ú", "Ñ", "á", "é", "í", "ó", "ú", "ñ"}
SpaceSet  == {" ", "\t", "\n", NBSP}
\* \w of the re module: letters (accented ones too), digits, underscore
WordSet   == LowerSet \cup UpperSet \cup DigitSet \cup AccentSet \cup {"_"}

IsDigit(c) == c \in DigitSet
IsAsciiLetter(c) == c \in LowerSet \/ c \in UpperSet
IsAscii(c) == c \notin AccentSet /\ c \notin {NBSP, EN_DASH, EM_DASH}
IsWordChar(c) == c \in WordSet
\* \s of the re module and the characters str.strip() removes
IsSpace(c) == c \in SpaceSet

DigitMap ==
    "0" :> 0 @@ "1" :> 1 @@ "2" :> 2 @@ "3" :> 3 @@ "4" :> 4 @@ "5" :> 5 @@ "6" :> 6 @@ "7" :> 7 @@ "8" :> 8 @@ "9" :> 9
DigitVal(c) == DigitMap[c]

\* str.upper() and str.lower(), character by character
UpperMap ==
    "a" :> "A" @@ "b" :> "B" @@ "c" :> "C" @@ "d" :> "D" @@ "e" :> "E" @@ "f" :> "F" @@ "g" :> "G" @@ "h" :> "H"
    @@ "i" :> "I" @@ "j" :> "J" @@ "k" :> "K" @@ "l" :> "L" @@ "m" :> "M" @@ "n" :> "N" @@ "o" :> "O" @@ "p" :> "P"
    @@ "q" :> "Q" @@ "r" :> "R" @@ "s" :> "S" @@ "t" :> "T" @@ "u" :> "U" @@ "v" :> "V" @@ "w" :> "W" @@ "x" :> "X"
    @@ "y" :> "Y" @@ "z" :> "Z" @@ "á" :> "Á" @@ "é" :> "É" @@ "í" :> "Í" @@ "ó" :> "Ó" @@ "ú" :> "Ú" @@ "ñ" :> "Ñ"
LowerMap ==
    "A" :> "a" @@ "B" :> "b" @@ "C" :> "c" @@ "D" :> "d" @@ "E" :> "e" @@ "F" :> "f" @@ "G" :> "g" @@ "H" :> "h"
    @@ "I" :> "i" @@ "J" :> "j" @@ "K" :> "k" @@ "L" :> "l" @@ "M" :> "m" @@ "N" :> "n" @@ "O" :> "o" @@ "P" :> "p"
    @@ "Q" :> "q" @@ "R" :> "r" @@ "S" :> "s" @@ "T" :> "t" @@ "U" :> "u" @@ "V" :> "v" @@ "W" :> "w" @@ "X" :> "x"
    @@ "Y" :> "y" @@ "Z" :> "z" @@ "Á" :> "á" @@ "É" :> "é" @@ "Í" :> "í" @@ "Ó" :> "ó" @@ "Ú" :> "ú" @@ "Ñ" :> "ñ"
\* unicodedata.normalize("NFKD", .) with the combining marks dropped: the base
\* letter of a letter with a diacritic, a space for the no-break space
UnaccentMap ==
    "Á" :> "A" @@ "É" :> "E" @@ "Í" :> "I" @@ "Ó" :> "O" @@ "Ú" :> "U" @@ "Ñ" :> "N" @@ "á" :> "a" @@ "é" :> "e"
    @@ "í" :> "i" @@ "ó" :> "o" @@ "ú" :> "u" @@ "ñ" :> "n" @@ NBSP :> " "
UpperChar(c) == IF c \in DOMAIN UpperMap THEN UpperMap[c] ELSE c
LowerChar(c) == IF c \in DOMAIN LowerMap THEN LowerMap[c] ELSE c
UnaccentChar(c) == IF c \in DOMAIN UnaccentMap THEN UnaccentMap[c] ELSE c

\* s.startswith(p)
StartsWith(s, p) == Len(p) <= Len(s) /\ SubSeq(s, 1, Len(p)) = p
\* p in s
Contains(s, p) == \E i \in 1..(Len(s) - Len(p) + 1) : SubSeq(s, i, i + Len(p) - 1) = p
\* s.count(c)
Count(s, c) == Cardinality({i \in 1..Len(s) : Char(s, i) = c})
\* s.rfind(c) for a character that occurs
RFind(s, c) == CHOOSE i \in 1..Len(s) : Char(s, i) = c /\ \A j \in (i+1)..Len(s) : Char(s, j) /= c

RECURSIVE LStripFrom(_, _)
LStripFrom(s, j) == IF j <= Len(s) /\ IsSpace(Char(s, j)) THEN LStripFrom(s, j + 1) ELSE j
RECURSIVE RStripFrom(_, _)
RStripFrom(s, j) == IF j >= 1 /\ IsSpace(Char(s, j)) THEN RStripFrom(s, j - 1) ELSE j
\* s.strip()
Strip(s) == IF LStripFrom(s, 1) > Len(s) THEN ""
            ELSE SubSeq(s, LStripFrom(s, 1), RStripFrom(s, Len(s)))

RECURSIVE UpperFrom(_, _)
UpperFrom(s, j) == IF j > Len(s) THEN "" ELSE UpperChar(Char(s, j)) \o UpperFrom(s, j + 1)
\* s.upper()
ToUpper(s) == UpperFrom(s, 1)
\* every character of s that is in the set from replaced by the string to
RECURSIVE ReplaceChars(_, _, _, _)
ReplaceChars(s, from, to, j) ==
    IF j > Len(s) THEN ""
    ELSE (IF Char(s, j) \in from THEN to ELSE Char(s, j)) \o ReplaceChars(s, from, to, j + 1)

(***************************************************************************)
(* Cell values: a blank cell (None or NaN), a text, a number                *)
(***************************************************************************)
Scale == 100

Blank == [t |-> "none"]
Str(s) == [t |-> "str", s |-> s]
Num(n) == [t |-> "num", n |-> n]

DigitChars == "0123456789"
RECURSIVE NatToStr(_)
NatToStr(n) == IF n < 10 THEN Char(DigitChars, n + 1)
               ELSE NatToStr(n \div 10) \o Char(DigitChars, (n % 10) + 1)
Abs(n) == IF n < 0 THEN -n ELSE n
\* str() of a number: an integer prints its digits, any other its decimals
NumToStr(n) ==
    (IF n < 0 THEN "-" ELSE "")
    \o NatToStr(Abs(n) \div Scale)
    \o (IF Abs(n) % Scale = 0 THEN ""
        ELSE "." \o NatToStr((Abs(n) % Scale) \div 10)
                 \o (IF Abs(n) % 10 = 0 THEN "" ELSE NatToStr(Abs(n) % 10)))
\* str(value) of a cell that is not blank
StrOf(cell) == IF cell.t = "str" THEN cell.s ELSE NumToStr(cell.n)

(***************************************************************************)
(* normalize_label                                                          *)
(***************************************************************************)
\* what lines 104-109 leave of one character: the accent dropped, upper case,
\* and a space for each of the dashes and of ; . :
LabelChar(c) ==
    IF c \in {EN_DASH, EM_DASH, "-", ";", ".", ":"} THEN " "
    ELSE UpperChar(UnaccentChar(c))

\* lines 110-111, re.sub(r"\s+", " ", text).strip(), over the characters from
\* position j on: started tells that a character has been written, gap that
\* white space came after it
RECURSIVE SqueezeLabel(_, _, _, _)
RECURSIVE SqueezeLabelChar(_, _, _, _, _)
SqueezeLabel(s, j, started, gap) ==
    IF j > Len(s) THEN "" ELSE SqueezeLabelChar(s, j, started, gap, LabelChar(Char(s, j)))
SqueezeLabelChar(s, j, started, gap, c) ==
    IF IsSpace(c) THEN SqueezeLabel(s, j + 1, started, started)
    ELSE (IF gap THEN " " ELSE "") \o c \o SqueezeLabel(s, j + 1, TRUE, FALSE)
NormalizeText(text) == SqueezeLabel(text, 1, FALSE, FALSE)

normalize_label(value) ==
    IF value.t = "none" THEN "" ELSE NormalizeText(StrOf(value))

(***************************************************************************)
(* parse_number                                                             *)
(***************************************************************************)
RECURSIVE DigitsVal(_, _, _)
\* int() of the digits at the positions from..to of s
DigitsVal(s, from, to) ==
    IF to < from THEN 0 ELSE 10 * DigitsVal(s, from, to - 1) + DigitVal(Char(s, to))
\* the digits after the point at position p as a number of 1/Scale
FracVal(b, p) ==
    IF p + 1 > Len(b) THEN 0
    ELSE IF p + 2 > Len(b) THEN 10 * DigitVal(Char(b, p + 1))
    ELSE DigitsVal(b, p + 1, p + 2)

\* float(text) accepts, over the characters 0-9 , . - that reach it, an optional
\* sign and digits with at most one point and at least one digit.
FloatBody(text) == IF StartsWith(text, "-") THEN SubSeq(text, 2, Len(text)) ELSE text
FloatBodyOk(b) ==
    /\ \A i \in 1..Len(b) : IsDigit(Char(b, i)) \/ Char(b, i) = "."
    /\ Count(b, ".") <= 1
    /\ \E i \in 1..Len(b) : IsDigit(Char(b, i))
FloatBodyVal(b, p) == DigitsVal(b, 1, p - 1) * Scale + FracVal(b, p)
FloatPoint(b) == IF Count(b, ".") = 1 THEN RFind(b, ".") ELSE Len(b) + 1
\* float(text), 0 standing for the ValueError the caller turns into 0.0
FloatOrZero(text) ==
    IF ~FloatBodyOk(FloatBody(text)) THEN 0
    ELSE IF StartsWith(text, "-") THEN -FloatBodyVal(FloatBody(text), FloatPoint(FloatBody(text)))
    ELSE FloatBodyVal(text, FloatPoint(text))

\* the cleaned text left as it is
SeparatorsKept(text) == text
\* lines 124-132: the decimal and thousands separators of the cleaned text
Separators(text) ==
    IF Count(text, ",") = 1 /\ Count(text, ".") = 0
      THEN ReplaceChars(text, {","}, ".", 1)
    ELSE IF Count(text, ".") > 1 /\ Count(text, ",") = 0
      THEN ReplaceChars(text, {"."}, "", 1)
    ELSE IF Count(text, ".") = 1 /\ Count(text, ",") = 1
      THEN IF RFind(text, ".") < RFind(text, ",")
             THEN ReplaceChars(ReplaceChars(text, {"."}, "", 1), {","}, ".", 1)
             ELSE ReplaceChars(text, {","}, "", 1)
    ELSE text
RECURSIVE NumberChars(_, _)
\* re.sub(r"[^0-9,.-]", "", s) from position j on
NumberChars(s, j) ==
    IF j > Len(s) THEN ""
    ELSE (IF IsDigit(Char(s, j)) \/ Char(s, j) \in {",", ".", "-"} THEN Char(s, j) ELSE "")
         \o NumberChars(s, j + 1)
\* lines 120-137, text being str(raw).strip().replace(" ", "")
ParseText(text) ==
    IF text = "" THEN 0
    ELSE FloatOrZero(Separators(NumberChars(ReplaceChars(text, {" "}, "", 1), 1)))

parse_number(raw) ==
    IF raw.t = "none" THEN 0
    ELSE IF raw.t = "num" THEN raw.n
    ELSE ParseText(ReplaceChars(Strip(raw.s), {NBSP}, "", 1))

(***************************************************************************)
(* Months and header canonicalisation                                       *)
(***************************************************************************)
MONTH_ORDER == <<"Ene", "Feb", "Mar", "Abr", "May", "Jun",
                 "Jul", "Ago", "Set", "Oct", "Nov", "Dic">>

\* config.MONTH_ORDER is one list object that balance_transformer and etl
\* import by name: month_order is what that list holds now
VARIABLE month_order

\* the dictionary in its insertion order: <<alias, canonical month>>
MONTH_ALIASES == <<
    <<"ene", "Ene">>, <<"enero", "Ene">>, <<"feb", "Feb">>, <<"febrero", "Feb">>,
    <<"mar", "Mar">>, <<"marzo", "Mar">>, <<"abr", "Abr">>, <<"abril", "Abr">>,
    <<"may", "May">>, <<"mayo", "May">>, <<"jun", "Jun">>, <<"junio", "Jun">>,
    <<"jul", "Jul">>, <<"julio", "Jul">>, <<"ago", "Ago">>, <<"agosto", "Ago">>,
    <<"set", "Set">>, <<"sep", "Set">>, <<"sept", "Set">>, <<"septiembre", "Set">>,
    <<"oct", "Oct">>, <<"octubre", "Oct">>, <<"nov", "Nov">>, <<"noviembre", "Nov">>,
    <<"dic", "Dic">>, <<"diciembre", "Dic">> >>

\* MONTH_ALIASES.values()
MonthNames == {"Ene", "Feb", "Mar", "Abr", "May", "Jun",
               "Jul", "Ago", "Set", "Oct", "Nov", "Dic"}
MonthIndex(m) == CHOOSE i \in 1..12 : MONTH_ORDER[i] = m

\* norm.lower().startswith(alias)
LowerStartsWith(norm, alias) ==
    /\ Len(alias) <= Len(norm)
    /\ \A q \in 1..Len(alias) : LowerChar(Char(norm, q)) = Char(alias, q)
RECURSIVE FirstAlias(_, _)
\* the loop over the aliases from number a on; no alias fits: norm itself
FirstAlias(norm, a) ==
    IF a > Len(MONTH_ALIASES) THEN norm
    ELSE IF LowerStartsWith(norm, MONTH_ALIASES[a][1]) THEN MONTH_ALIASES[a][2]
    ELSE FirstAlias(norm, a + 1)
CanonicalOf(norm) ==
    IF StartsWith(norm, "DESCRIPCION") THEN "descripcion"
    ELSE IF StartsWith(norm, "ACUMULADO") THEN "acumulado"
    ELSE FirstAlias(norm, 1)

canonical_header(value) ==
    IF value.t = "none" THEN "" ELSE CanonicalOf(normalize_label(value))

(***************************************************************************)
(* Regular expressions, matched as the re module matches them               *)
(***************************************************************************)
RECURSIVE SkipSpaces(_, _)
\* the position after \s* read from position j
SkipSpaces(s, j) == IF j <= Len(s) /\ IsSpace(Char(s, j)) THEN SkipSpaces(s, j + 1) ELSE j
\* the position after -? read from position j
SkipDash(s, j) == IF j <= Len(s) /\ Char(s, j) = "-" THEN j + 1 ELSE j
\* the position after \s*-?\s* read from position j
AfterSep(s, j) == SkipSpaces(s, SkipDash(s, SkipSpaces(s, j)))
\* \b between positions j and j+1, position j holding a word character
BoundaryAfter(s, j) == j = Len(s) \/ ~IsWordChar(Char(s, j + 1))
BoundaryBefore(s, i) == i = 1 \/ ~IsWordChar(Char(s, i - 1))

\* <digit>\b at position j
DigitEnds(s, j, digit) == j <= Len(s) /\ Char(s, j) = digit /\ BoundaryAfter(s, j)
\* re.search(r"<letter>\s*-?\s*<digit>\b", s)
MarkerSearch(s, letter, digit) ==
    \E i \in 1..Len(s) : Char(s, i) = letter /\ DigitEnds(s, AfterSep(s, i + 1), digit)
\* <digit>\) at position j
DigitCloses(s, j, digit) == j + 1 <= Len(s) /\ Char(s, j) = digit /\ Char(s, j + 1) = ")"
\* re.search(r"\(<letter>\s*-?\s*<digit>\)", s, re.IGNORECASE)
ParenMarkerSearch(s, letter, digit) ==
    \E i \in 1..(Len(s) - 1) :
        /\ Char(s, i) = "("
        /\ UpperChar(Char(s, i + 1)) = letter
        /\ DigitCloses(s, AfterSep(s, i + 2), digit)

RECURSIVE DigitRunEnd(_, _)
\* the position after \d* read from position j
DigitRunEnd(s, j) == IF j <= Len(s) /\ IsDigit(Char(s, j)) THEN DigitRunEnd(s, j + 1) ELSE j
\* int(m.group(1) or 0), the digits of the match starting at position j
RevNumberAt(s, j) == DigitsVal(s, j, DigitRunEnd(s, j) - 1)
\* the numbers int(m.group(1) or 0) of re.finditer(r"REV\s*-?\s*(\d+)?", s)
RevNumbers(s) ==
    {RevNumberAt(s, AfterSep(s, i + 3)) :
        i \in {k \in 1..(Len(s) - 2) : SubSeq(s, k, k + 2) = "REV"}}

\* (19|20)\d{2} at position i
CenturyAt(s, i) ==
    /\ i + 3 <= Len(s)
    /\ SubSeq(s, i, i + 1) \in {"19", "20"}
    /\ IsDigit(Char(s, i + 2)) /\ IsDigit(Char(s, i + 3))
\* YEAR_REGEX = \b(19|20)\d{2}\b at position i
YearAt(s, i) == CenturyAt(s, i) /\ BoundaryBefore(s, i) /\ BoundaryAfter(s, i + 3)
RECURSIVE YearFrom(_, _)
\* int(YEAR_REGEX.search(s).group(0)) searched from position i on, 0 standing
\* for no match
YearFrom(s, i) ==
    IF i + 3 > Len(s) THEN 0
    ELSE IF YearAt(s, i) THEN DigitsVal(s, i, i + 3)
    ELSE YearFrom(s, i + 1)
YearSearch(s) == YearFrom(s, 1)

\* between the characters c and d, (?<=\d)(?=[A-Za-z]) or (?<=[A-Za-z])(?=\d)
DigitLetterEdge(c, d) ==
    IF IsDigit(c) THEN IsAsciiLetter(d) ELSE IsAsciiLetter(c) /\ IsDigit(d)
RECURSIVE SpaceDigitLetter(_, _)
\* both re.sub of lines 158-159: a space at every digit/letter edge from
\* position j on
SpaceDigitLetter(s, j) ==
    IF j > Len(s) THEN ""
    ELSE IF j = Len(s) THEN Char(s, j)
    ELSE Char(s, j) \o (IF DigitLetterEdge(Char(s, j), Char(s, j + 1)) THEN " " ELSE "")
         \o SpaceDigitLetter(s, j + 1)

\* 0 standing for None
extract_year_from_title(sheet_name) == YearSearch(SpaceDigitLetter(sheet_name, 1))

\* A pattern is a sequence of items <<kind, text>>, matched with re.IGNORECASE:
\* "lit" the text itself, "set" one character of the text, "s+" \s+,
\* "s*" \s*, "d4" \d{4}.  Every text is in upper case.
LitAt(s, j, text) ==
    /\ j + Len(text) - 1 <= Len(s)
    /\ \A q \in 1..Len(text) : UpperChar(Char(s, j + q - 1)) = Char(text, q)
SetAt(s, j, text) ==
    j <= Len(s) /\ \E q \in 1..Len(text) : UpperChar(Char(s, j)) = Char(text, q)
DigitsAt(s, j, n) == j + n - 1 <= Len(s) /\ \A q \in 0..(n - 1) : IsDigit(Char(s, j + q))
RECURSIVE MatchItems(_, _, _, _)
\* the position after the items from number k on, matched from position j;
\* 0: no match
MatchItems(items, s, j, k) ==
    IF k > Len(items) THEN j
    ELSE IF items[k][1] = "lit"
      THEN IF LitAt(s, j, items[k][2])
             THEN MatchItems(items, s, j + Len(items[k][2]), k + 1) ELSE 0
    ELSE IF items[k][1] = "set"
      THEN IF SetAt(s, j, items[k][2]) THEN MatchItems(items, s, j + 1, k + 1) ELSE 0
    ELSE IF items[k][1] = "s+"
      THEN IF j <= Len(s) /\ IsSpace(Char(s, j))
             THEN MatchItems(items, s, SkipSpaces(s, j), k + 1) ELSE 0
    ELSE IF items[k][1] = "s*"
      THEN MatchItems(items, s, SkipSpaces(s, j), k + 1)
    ELSE IF DigitsAt(s, j, 4) THEN MatchItems(items, s, j + 4, k + 1) ELSE 0

\* BALANCE\s+DE\s+ENERG[ÍI]A\s+EN\s+MWH of lines 167 and 223
TITLE_ITEMS == <<
    <<"lit", "BALANCE">>, <<"s+", "">>, <<"lit", "DE">>, <<"s+", "">>,
    <<"lit", "ENERG">>, <<"set", "ÍI">>, <<"lit", "A">>, <<"s+", "">>,
    <<"lit", "EN">>, <<"s+", "">>, <<"lit", "MWH">> >>
RECURSIVE LazyCentury(_, _)
\* .*?(19|20)\d{2} read from position j: the position of the first such
\* number the dots reach (a dot matches no newline), 0: none
LazyCentury(s, j) ==
    IF j + 3 > Len(s) THEN 0
    ELSE IF CenturyAt(s, j) THEN j
    ELSE IF Char(s, j) = "\n" THEN 0
    ELSE LazyCentury(s, j + 1)
\* the position of the year the pattern matched from position i ends with; 0: no match
TitleAt(s, i, after) == IF after = 0 THEN 0 ELSE LazyCentury(s, after)
RECURSIVE TitleFrom(_, _)
\* regex.search(s) from position i on: <<start, position of the year>>,
\* <<>> standing for no match
TitleFrom(s, i) ==
    IF i > Len(s) THEN <<>>
    ELSE IF TitleAt(s, i, MatchItems(TITLE_ITEMS, s, i, 1)) /= 0
      THEN <<i, TitleAt(s, i, MatchItems(TITLE_ITEMS, s, i, 1))>>
    ELSE TitleFrom(s, i + 1)
\* regex.search(cell) is not None
TitleSearch(s) == TitleFrom(s, 1) /= <<>>
\* match.group(0)
TitleGroup(m, s) == SubSeq(s, m[1], m[2] + 3)

(***************************************************************************)
(* _score_version: priorities in thousandths (4.0 is 4000)                  *)
(***************************************************************************)
SetMax(S) == CHOOSE x \in S : \A y \in S : y <= x

RevScore(revision_number) ==
    [priority |-> 1000 + revision_number, revision_number |-> revision_number,
     label |-> "REV" \o (IF revision_number = 0 THEN "" ELSE NatToStr(revision_number))]
ScoreOf(norm, sheet_name) ==
    IF MarkerSearch(norm, "R", "2") \/ ParenMarkerSearch(sheet_name, "R", "2")
      THEN [priority |-> 4000, revision_number |-> 0, label |-> "R2"]
    ELSE IF MarkerSearch(norm, "R", "1") \/ ParenMarkerSearch(sheet_name, "R", "1")
      THEN [priority |-> 3000, revision_number |-> 0, label |-> "R1"]
    ELSE IF MarkerSearch(norm, "V", "1") \/ Contains(norm, "V1")
      THEN [priority |-> 2000, revision_number |-> 0, label |-> "V1"]
    ELSE IF RevNumbers(norm) /= {} THEN RevScore(SetMax(RevNumbers(norm)))
    ELSE [priority |-> 0, revision_number |-> 0, label |-> "BASE"]

score_version(sheet_name) == ScoreOf(NormalizeText(sheet_name), sheet_name)

(***************************************************************************)
(* Row helpers                                                              *)
(***************************************************************************)
TARGET_ROWS_ENERGY == [
    regulados     |-> <<"A EMP. DISTRIBUIDORAS", "A EMP DISTRIBUIDORAS", "MERCADO REGULADO", "REGULADOS">>,
    libres        |-> <<"A CLIENTES LIBRES", "MERCADO LIBRE", "LIBRES">>,
    coes          |-> <<"COES", "SPOT", "COES SPOT", "COES-SPOT", "MERCADO SPOT">>,
    servicios_aux |-> <<"SERVICIOS AUXILIARES", "CONSUMO PROPIO DE CENTRALES", "SSAA">>,
    perdidas      |-> <<"PERDIDAS SISTEMAS TRANSMISION", "PERDIDAS SISTEMAS TRANSMISION", "PERDIDAS">> ]

TARGET_ROWS_SALES == [
    regulados |-> <<"REGULADOS", "MERCADO REGULADO", "A EMP. DISTRIBUIDORAS">>,
    libres    |-> <<"LIBRES", "MERCADO LIBRE", "A CLIENTES LIBRES">>,
    coes_spot |-> <<"COES", "SPOT", "COES-SPOT", "COES SPOT">>,
    otros     |-> <<"OTROS">> ]

\* the metrics in the order the dictionaries list them
EnergyMetrics == <<"regulados", "libres", "coes", "servicios_aux", "perdidas">>
SalesMetrics  == <<"regulados", "libres", "coes_spot", "otros">>

match_row(targets, candidate) ==
    \E k \in 1..Len(targets) : Contains(candidate, targets[k])

\* a variant that knows the Venta banner alone
detect_sale_only(label) ==
    IF label /= "" /\ (\/ Contains(label, "VENTA DE ENERGIA")
                       \/ StartsWith(label, "VENTA ENERGIA")
                       \/ StartsWith(label, "VENTA DE ENER")) THEN "venta"
    ELSE ""
\* "" standing for None
detect_section(label) ==
    IF label = "" THEN ""
    ELSE IF \/ Contains(label, "VENTA DE ENERGIA")
            \/ StartsWith(label, "VENTA ENERGIA")
            \/ StartsWith(label, "VENTA DE ENER") THEN "venta"
    ELSE IF \/ Contains(label, "COMPRA DE ENERGIA")
            \/ StartsWith(label, "COMPRA ENER")
            \/ StartsWith(label, "COMPRA DE ENER") THEN "compra"
    ELSE ""

is_blank_row(row) ==
    \A c \in 1..Len(row) :
        row[c].t = "none" \/ (row[c].t = "str" /\ Strip(row[c].s) = "")

\* the cells of a row the title pattern is found in
TitleCells(row) == {c \in 1..Len(row) : row[c].t = "str" /\ TitleSearch(row[c].s)}
RECURSIVE LocateFrom(_, _, _, _)
RECURSIVE LocateRow(_, _, _, _, _)
\* the loop over the rows from number r on, title_idx being the first titled
\* row so far
LocateFrom(df, expected_year, r, title_idx) ==
    IF r > Len(df) THEN title_idx
    ELSE LocateRow(df, expected_year, r, title_idx, TitleCells(df[r]))
LocateRow(df, expected_year, r, title_idx, cells) ==
    IF \E c \in cells : YearSearch(df[r][c].s) = expected_year THEN r
    ELSE LocateFrom(df, expected_year, r + 1, IF title_idx = 0 /\ cells /= {} THEN r ELSE title_idx)
\* the row number counted from 1, 0 standing for None
locate_title_row(df, expected_year) == LocateFrom(df, expected_year, 1, 0)

\* the year _find_title_year reads in one cell, 0: none
CellTitleYear(cell) ==
    IF cell.t = "str" /\ TitleSearch(cell.s)
      THEN YearSearch(TitleGroup(TitleFrom(cell.s, 1), cell.s))
      ELSE 0
RECURSIVE FindTitleYearFrom(_, _, _)
\* the loop over the cells, row by row, from cell c of row r on
FindTitleYearFrom(values, r, c) ==
    IF r > Len(values) THEN 0
    ELSE IF c > Len(values[r]) THEN FindTitleYearFrom(values, r + 1, 1)
    ELSE IF CellTitleYear(values[r][c]) /= 0 THEN CellTitleYear(values[r][c])
    ELSE FindTitleYearFrom(values, r, c + 1)
\* 0 standing for None
find_title_year(values) == FindTitleYearFrom(values, 1, 1)

(***************************************************************************)
(* BalanceTransformer._extract_table                                        *)
(* df is the sheet's grid: a sequence of rows of equal width; rows and      *)
(* columns are numbered from 1.  An absent list (None) is <<>>.             *)
(***************************************************************************)
\* a list given by a rule, as the tuple of its members
AsList(f) == f \o <<>>
Zeros(n) == AsList([i \in 1..n |-> 0])
AllZero(seq) == \A i \in 1..Len(seq) : seq[i] = 0
\* the members of a set of numbers in ascending order
RECURSIVE SortedSeq(_)
SortedSeq(S) == IF S = {} THEN <<>>
                ELSE <<CHOOSE x \in S : \A y \in S : x <= y>>
                     \o SortedSeq(S \ {CHOOSE x \in S : \A y \in S : x <= y})
First(S) == CHOOSE x \in S : \A y \in S : x <= y

RawHeaders(row) == AsList([c \in 1..Len(row) |-> canonical_header(row[c])])
\* line 367; columns are numbered from 1
DescCol(raw_headers) ==
    IF \E c \in 1..Len(raw_headers) : raw_headers[c] = "descripcion"
      THEN First({c \in 1..Len(raw_headers) : raw_headers[c] = "descripcion"})
      ELSE 1
\* line 368: the month columns in column order
MonthColumns(raw_headers) ==
    SortedSeq({c \in 1..Len(raw_headers) : raw_headers[c] \in MonthNames})

\* raw_value not in (None, "", "-") and not NaN
CellGiven(raw) == raw.t = "num" \/ (raw.t = "str" /\ raw.s \notin {"", "-"})
\* lines 378-387: what the loop keeps of one row
DataRow(row, desc_col_idx, month_columns) ==
    [desc_norm |-> normalize_label(row[desc_col_idx]),
     values    |-> AsList([k \in 1..Len(month_columns) |-> parse_number(row[month_columns[k]])]),
     given     |-> AsList([k \in 1..Len(month_columns) |-> CellGiven(row[month_columns[k]])])]
\* a variant that reads the rows down to the last of the grid
GridEnd(df, r) == Len(df)
RECURSIVE DataEnd(_, _)
\* the last row before the first fully blank row from row r on
DataEnd(df, r) == IF r > Len(df) \/ is_blank_row(df[r]) THEN r - 1 ELSE DataEnd(df, r + 1)
\* data_rows
DataRows(df, header_idx, desc_col_idx, month_columns) ==
    AsList([k \in 1..(DataEnd(df, header_idx + 1) - header_idx) |->
                DataRow(df[header_idx + k], desc_col_idx, month_columns)])
\* month_presence
MonthPresence(data_rows, n) ==
    AsList([k \in 1..n |->
        \E r \in 1..Len(data_rows) : data_rows[r].given[k] /\ data_rows[r].values[k] /= 0])

MetricWarning(metric) == "No se encontró fila para '" \o metric \o "'."
MonthWarning(month) == "Mes '" \o month \o "' no encontrado en la tabla. Se usa 0."

\* the monetary table: the first matching row of each metric, 0: none
SalesRow(data_rows, metric) ==
    IF \E r \in 1..Len(data_rows) : match_row(TARGET_ROWS_SALES[metric], data_rows[r].desc_norm)
      THEN First({r \in 1..Len(data_rows) :
                    match_row(TARGET_ROWS_SALES[metric], data_rows[r].desc_norm)})
      ELSE 0
SalesValues(data_rows, n, r) == IF r = 0 THEN Zeros(n) ELSE data_rows[r].values
SalesSeries(data_rows, n) ==
    [regulados |-> SalesValues(data_rows, n, SalesRow(data_rows, "regulados")),
     libres    |-> SalesValues(data_rows, n, SalesRow(data_rows, "libres")),
     coes_spot |-> SalesValues(data_rows, n, SalesRow(data_rows, "coes_spot")),
     otros     |-> SalesValues(data_rows, n, SalesRow(data_rows, "otros"))]
SalesRowWarnings(data_rows) ==
    LET missing(m) == SalesRow(data_rows, m) = 0
        pick == SelectSeq(SalesMetrics, missing)
    IN  [i \in 1..Len(pick) |-> MetricWarning(pick[i])]

\* the energy table: the variables of the scan over data_rows
ScanStart(n) ==
    [current_section |-> "",
     series |-> [regulados |-> Zeros(n), libres |-> Zeros(n), coes |-> Zeros(n),
                 servicios_aux |-> Zeros(n), perdidas |-> Zeros(n)],
     servicios_aux_preferred |-> <<>>,
     servicios_aux_fallback  |-> <<>>,
     fallback_venta_matches  |-> [regulados |-> <<>>, libres |-> <<>>, coes |-> <<>>]]

Hit(metric, row) == match_row(TARGET_ROWS_ENERGY[metric], row.desc_norm)
\* lines 413-419
FallbackStep(st, row) ==
    IF st.current_section /= "" THEN st
    ELSE [st EXCEPT !.fallback_venta_matches =
            [regulados |-> IF Hit("regulados", row) THEN row.values ELSE @.regulados,
             libres    |-> IF Hit("libres", row) THEN row.values ELSE @.libres,
             coes      |-> IF Hit("coes", row) THEN row.values ELSE @.coes]]
\* lines 421-427
VentaStep(st, row) ==
    IF st.current_section /= "venta" THEN st
    ELSE [st EXCEPT
            !.series.regulados = IF AllZero(@) /\ Hit("regulados", row) THEN row.values ELSE @,
            !.series.libres    = IF AllZero(@) /\ Hit("libres", row) THEN row.values ELSE @,
            !.series.coes      = IF AllZero(@) /\ Hit("coes", row) THEN row.values ELSE @]
\* lines 429-431
LossStep(st, row) ==
    IF Hit("perdidas", row) /\ AllZero(st.series.perdidas)
      THEN [st EXCEPT !.series.perdidas = row.values] ELSE st
\* lines 433-437
AuxStep(st, row) ==
    IF match_row(<<"SERVICIOS AUXILIARES">>, row.desc_norm)
      THEN [st EXCEPT !.servicios_aux_preferred = IF @ /= <<>> THEN @ ELSE row.values]
    ELSE IF match_row(<<"CONSUMO PROPIO DE CENTRALES", "CONSUMO PROPIO">>, row.desc_norm)
      THEN [st EXCEPT !.servicios_aux_fallback = IF @ /= <<>> THEN @ ELSE row.values]
    ELSE st
\* lines 405-437: one row of the scan
ScanRow(st, row) ==
    IF detect_section(row.desc_norm) /= ""
      THEN [st EXCEPT !.current_section = detect_section(row.desc_norm)]
    ELSE IF row.desc_norm = "" THEN st
    ELSE AuxStep(LossStep(VentaStep(FallbackStep(st, row), row), row), row)
RECURSIVE ScanRows(_, _, _)
\* the scan from row r of data_rows on
ScanRows(st, data_rows, r) ==
    IF r > Len(data_rows) THEN st
    ELSE ScanRows(ScanRow(st, data_rows[r]), data_rows, r + 1)

\* a variant that takes the CONSUMO PROPIO row when there is one
AuxOwnFirst(st) ==
    IF st.servicios_aux_fallback /= <<>> THEN st.servicios_aux_fallback
    ELSE IF st.servicios_aux_preferred /= <<>> THEN st.servicios_aux_preferred
    ELSE st.series.servicios_aux
\* lines 439-442
AuxSeries(st) ==
    IF st.servicios_aux_preferred /= <<>> THEN st.servicios_aux_preferred
    ELSE IF st.servicios_aux_fallback /= <<>> THEN st.servicios_aux_fallback
    ELSE st.series.servicios_aux
\* lines 444-446
VentaSeries(st, metric) ==
    IF AllZero(st.series[metric]) /\ st.fallback_venta_matches[metric] /= <<>>
      THEN st.fallback_venta_matches[metric] ELSE st.series[metric]
\* the series the scan ended with
ScanSeries(st) ==
    [regulados     |-> VentaSeries(st, "regulados"),
     libres        |-> VentaSeries(st, "libres"),
     coes          |-> VentaSeries(st, "coes"),
     servicios_aux |-> AuxSeries(st),
     perdidas      |-> st.series.perdidas]
EnergySeries(data_rows, n) == ScanSeries(ScanRows(ScanStart(n), data_rows, 1))
\* lines 448-450
EnergyRowWarnings(series) ==
    LET missing(m) == AllZero(series[m])
        pick == SelectSeq(EnergyMetrics, missing)
    IN  [i \in 1..Len(pick) |-> MetricWarning(pick[i])]

\* lines 452-455: the number of the last month column with presence or a
\* non-zero value, 0: none
LastWithData(month_presence, series) ==
    IF \E k \in 1..Len(month_presence) :
           month_presence[k] \/ \E m \in DOMAIN series : series[m][k] /= 0
      THEN SetMax({k \in 1..Len(month_presence) :
                     month_presence[k] \/ \E m \in DOMAIN series : series[m][k] /= 0})
      ELSE 0
\* lines 457-459: active_month_names
ActiveNames(month_names, last_with_data) ==
    IF last_with_data = 0 THEN month_names ELSE SubSeq(month_names, 1, last_with_data)

\* active_month_names.index(target_month) counted from 1, 0: not in the list
ActiveIndex(active_month_names, target_month) ==
    IF \E k \in 1..Len(active_month_names) : active_month_names[k] = target_month
      THEN First({k \in 1..Len(active_month_names) : active_month_names[k] = target_month})
      ELSE 0
\* a variant that leaves out the months the table lacks instead of filling
\* them with zeros
AlignedFound(seq, active_month_names) ==
    AsList([q \in 1..Len(SelectSeq(month_order, LAMBDA m : ActiveIndex(active_month_names, m) /= 0)) |->
        seq[ActiveIndex(active_month_names,
                        SelectSeq(month_order, LAMBDA m : ActiveIndex(active_month_names, m) /= 0)[q])]])
\* lines 464-476 for one list
AlignedValues(seq, active_month_names) ==
    AsList([i \in 1..Len(month_order) |->
        IF ActiveIndex(active_month_names, month_order[i]) = 0 THEN 0
        ELSE seq[ActiveIndex(active_month_names, month_order[i])]])
AlignedPresence(month_presence, active_month_names) ==
    AsList([i \in 1..Len(month_order) |->
        IF ActiveIndex(active_month_names, month_order[i]) = 0 THEN FALSE
        ELSE month_presence[ActiveIndex(active_month_names, month_order[i])]])
AlignWarnings(active_month_names) ==
    LET missing(m) == ActiveIndex(active_month_names, m) = 0
        pick == SelectSeq(month_order, missing)
    IN  [i \in 1..Len(pick) |-> MonthWarning(pick[i])]
AlignedSeries(is_sales, series, active_month_names) ==
    IF is_sales
      THEN [regulados |-> AlignedValues(series.regulados, active_month_names),
            libres    |-> AlignedValues(series.libres, active_month_names),
            coes_spot |-> AlignedValues(series.coes_spot, active_month_names),
            otros     |-> AlignedValues(series.otros, active_month_names)]
      ELSE [regulados     |-> AlignedValues(series.regulados, active_month_names),
            libres        |-> AlignedValues(series.libres, active_month_names),
            coes          |-> AlignedValues(series.coes, active_month_names),
            servicios_aux |-> AlignedValues(series.servicios_aux, active_month_names),
            perdidas      |-> AlignedValues(series.perdidas, active_month_names)]

\* lines 452-480
AlignTable(is_sales, series, row_warnings, month_presence, active_month_names) ==
    [ok       |-> TRUE,
     months   |-> month_order,
     presence |-> AlignedPresence(month_presence, active_month_names),
     series   |-> AlignedSeries(is_sales, series, active_month_names),
     warnings |-> row_warnings \o AlignWarnings(active_month_names)]
TableOfSeries(is_sales, month_names, month_presence, series, row_warnings) ==
    AlignTable(is_sales, series, row_warnings, month_presence,
               ActiveNames(month_names, LastWithData(month_presence, series)))
TableOfEnergy(month_names, month_presence, series) ==
    TableOfSeries(FALSE, month_names, month_presence, series, EnergyRowWarnings(series))
\* lines 389-450
TableOfRows(is_sales, month_names, data_rows) ==
    IF is_sales
      THEN TableOfSeries(TRUE, month_names, MonthPresence(data_rows, Len(month_names)),
                         SalesSeries(data_rows, Len(month_names)), SalesRowWarnings(data_rows))
      ELSE TableOfEnergy(month_names, MonthPresence(data_rows, Len(month_names)),
                         EnergySeries(data_rows, Len(month_names)))
\* [ok |-> FALSE] stands for the ValueError "No se encontraron columnas de meses."
TableOfColumns(df, header_idx, is_sales, raw_headers, month_columns) ==
    IF month_columns = <<>> THEN [ok |-> FALSE]
    ELSE TableOfRows(is_sales,
                     AsList([k \in 1..Len(month_columns) |-> raw_headers[month_columns[k]]]),
                     DataRows(df, header_idx, DescCol(raw_headers), month_columns))
TableOfHeaders(df, header_idx, is_sales, raw_headers) ==
    TableOfColumns(df, header_idx, is_sales, raw_headers, MonthColumns(raw_headers))

extract_table(df, header_idx, is_sales) ==
    TableOfHeaders(df, header_idx, is_sales, RawHeaders(df[header_idx]))

(***************************************************************************)
(* BalanceTransformer._parse_sheet                                          *)
(***************************************************************************)
\* lines 287-288, normalized being the canonical headers of the row
IsHeader(normalized) ==
    /\ \E c \in 1..Len(normalized) : normalized[c] = "descripcion"
    /\ Cardinality({c \in 1..Len(normalized) : normalized[c] \in MonthNames}) >= 3
IsHeaderRow(row) == IsHeader(RawHeaders(row))
\* lines 285-289: header_indices
HeaderRows(df) == {r \in 1..Len(df) : IsHeaderRow(df[r])}
\* lines 294-295; title_row_idx 0 stands for None
HeadersBelow(header_indices, title_row_idx) ==
    IF title_row_idx /= 0 /\ \E r \in header_indices : r > title_row_idx
      THEN {r \in header_indices : r > title_row_idx}
      ELSE header_indices

RECURSIVE JoinCells(_, _)
\* " ".join(normalize_label(cell) for cell in cells[j:])
JoinCells(cells, j) ==
    IF j > Len(cells) THEN ""
    ELSE IF j = Len(cells) THEN normalize_label(cells[j])
    ELSE normalize_label(cells[j]) \o " " \o JoinCells(cells, j + 1)
RECURSIVE TextCells(_, _, _)
\* the texts of df.iloc[r:last].stack(), row by row
TextCells(df, r, last) ==
    IF r > last THEN <<>>
    ELSE SelectSeq(df[r], LAMBDA cell : cell.t = "str") \o TextCells(df, r + 1, last)
\* a variant that reads the four rows above the header
ContextWide(df, header_idx) ==
    JoinCells(TextCells(df, IF header_idx > 4 THEN header_idx - 4 ELSE 1, header_idx - 1), 1)
\* lines 305-309
ContextText(df, header_idx) ==
    JoinCells(TextCells(df, IF header_idx > 3 THEN header_idx - 3 ELSE 1, header_idx - 1), 1)
\* line 310
IsSalesText(context_text) ==
    \E keyword \in {"MILLONES", "SOLES", "S/", "MONETARI"} : Contains(context_text, keyword)
IsSales(df, header_idx) == IsSalesText(ContextText(df, header_idx))

\* the variables of the loop over the header rows; an absent series is <<>>,
\* a present one <<series>>
SheetStart ==
    [energy_series |-> <<>>, sales_series |-> <<>>, warnings |-> <<>>,
     observed_months |-> <<>>, last_month |-> "", energy_months |-> month_order]

\* a variant that takes every month of the table as observed
ObservedAll(months, month_presence) == months
\* line 334: the months paired by zip with a true presence flag
ObservedOf(months, month_presence) ==
    AsList([q \in 1..Cardinality({j \in 1..Len(months) : month_presence[j]}) |->
        months[SortedSeq({j \in 1..Len(months) : month_presence[j]})[q]]])
\* lines 325-336
EnergyTable(acc, table, observed) ==
    [acc EXCEPT !.energy_series = <<table.series>>,
                !.energy_months = table.months,
                !.observed_months = observed,
                !.last_month = IF observed /= <<>> THEN observed[Len(observed)] ELSE @]
\* a variant in which every table replaces the one taken before
TableReplaces(acc, is_sales, table) ==
    IF ~table.ok THEN acc
    ELSE IF is_sales
      THEN [acc EXCEPT !.warnings = @ \o table.warnings, !.sales_series = <<table.series>>]
    ELSE EnergyTable([acc EXCEPT !.warnings = @ \o table.warnings], table,
                     ObservedOf(table.months, table.presence))
\* lines 311-340, table being what _extract_table gave for the header
HeaderTable(acc, is_sales, table) ==
    IF ~table.ok THEN acc
    ELSE IF is_sales /\ acc.sales_series = <<>>
      THEN [acc EXCEPT !.warnings = @ \o table.warnings, !.sales_series = <<table.series>>]
    ELSE IF ~is_sales /\ acc.energy_series = <<>>
      THEN EnergyTable([acc EXCEPT !.warnings = @ \o table.warnings], table,
                       ObservedOf(table.months, table.presence))
    ELSE [acc EXCEPT !.warnings = @ \o table.warnings]
HeaderKind(acc, df, header_idx, is_sales) ==
    HeaderTable(acc, is_sales, extract_table(df, header_idx, is_sales))
\* lines 304-340: one header row
HeaderStep(acc, df, header_idx) == HeaderKind(acc, df, header_idx, IsSales(df, header_idx))
RECURSIVE HeaderLoop(_, _, _)
HeaderLoop(acc, df, header_indices) ==
    IF header_indices = {} THEN acc
    ELSE HeaderLoop(HeaderStep(acc, df, First(header_indices)), df,
                    header_indices \ {First(header_indices)})

missing_rows_report(energy_series) ==
    LET labels == [regulados |-> "A emp. Distribuidoras", libres |-> "A clientes Libres",
                   coes |-> "COES", perdidas |-> "Pérdidas",
                   servicios_aux |-> "Servicios auxiliares"]
        missing(m) == AllZero(energy_series[m])
        pick == SelectSeq(<<"regulados", "libres", "coes", "perdidas", "servicios_aux">>, missing)
    IN  [i \in 1..Len(pick) |-> "No se encontró fila para '" \o labels[pick[i]] \o "'"]

DEFAULT_SOURCE_ID == "balance-xlsx"

\* a variant that leaves the list of the observed months as the loop left it
ObservedAsLeft(acc) == acc.observed_months
\* lines 345-348: the months when no month was observed
ObservedOrAll(acc) ==
    IF acc.observed_months /= <<>> THEN acc.observed_months
    ELSE SelectSeq(month_order, LAMBDA m : \E q \in 1..Len(acc.energy_months) : acc.energy_months[q] = m)
\* lines 350-363
SheetResult(year, sheet_name, acc, observed_months) ==
    [ok |-> TRUE,
     year |-> year,
     months |-> month_order,
     observed_months |-> IF observed_months /= <<>> THEN observed_months ELSE month_order,
     energy |-> acc.energy_series[1],
     sales |-> acc.sales_series,
     warnings |-> acc.warnings \o missing_rows_report(acc.energy_series[1]),
     source_id |-> DEFAULT_SOURCE_ID,
     sheet_name |-> sheet_name,
     last_month |-> IF observed_months /= <<>> THEN observed_months[Len(observed_months)]
                    ELSE acc.last_month]
\* lines 342-363, acc being what the loop over the header rows left
SheetOfTables(year, sheet_name, acc) ==
    IF acc.energy_series = <<>> THEN [ok |-> FALSE, error |-> "no energy table"]
    ELSE SheetResult(year, sheet_name, acc, ObservedOrAll(acc))
\* lines 291-340
SheetOfHeaders(df, year, sheet_name, header_indices) ==
    IF header_indices = {} THEN [ok |-> FALSE, error |-> "no header row"]
    ELSE SheetOfTables(year, sheet_name,
            HeaderLoop(SheetStart, df, HeadersBelow(header_indices, locate_title_row(df, year))))

\* [ok |-> FALSE, error |-> e] stands for the ValueError raised
parse_sheet(df, year, sheet_name) == SheetOfHeaders(df, year, sheet_name, HeaderRows(df))

(***************************************************************************)
(* app/etl: the sheet parser behind parse_balance_workbook                  *)
(***************************************************************************)
\* normalize_text, one character: NFKD, then what encode("ascii", "ignore")
\* keeps, in lower case
EtlChar(c) == IF IsAscii(UnaccentChar(c)) THEN LowerChar(UnaccentChar(c)) ELSE ""
RECURSIVE EtlCharsFrom(_, _)
EtlCharsFrom(s, j) == IF j > Len(s) THEN "" ELSE EtlChar(Char(s, j)) \o EtlCharsFrom(s, j + 1)
normalize_text(text) == Strip(EtlCharsFrom(text, 1))

RECURSIVE EtlFirstAlias(_, _)
\* the loop over the aliases from number a on; no alias fits: norm itself
EtlFirstAlias(norm, a) ==
    IF a > Len(MONTH_ALIASES) THEN norm
    ELSE IF StartsWith(norm, MONTH_ALIASES[a][1]) THEN MONTH_ALIASES[a][2]
    ELSE EtlFirstAlias(norm, a + 1)
EtlCanonicalOf(norm) ==
    IF Contains(norm, "descripcion") THEN "descripcion"
    ELSE IF Contains(norm, "acumulado") THEN "acumulado"
    ELSE EtlFirstAlias(norm, 1)
\* etl._canonical_header; a blank cell gives a text that is no header
etl_canonical_header(value) ==
    IF value.t = "none" THEN "" ELSE EtlCanonicalOf(normalize_text(StrOf(value)))
EtlRawHeaders(row) == AsList([c \in 1..Len(row) |-> etl_canonical_header(row[c])])

\* balance de energ[ií]a en mwh\s*-\s*a[ñn]o\s*(\d{4}) of etl._find_title_year
ETL_TITLE_ITEMS == <<
    <<"lit", "BALANCE DE ENERG">>, <<"set", "IÍ">>, <<"lit", "A EN MWH">>,
    <<"s*", "">>, <<"lit", "-">>, <<"s*", "">>, <<"lit", "A">>, <<"set", "ÑN">>,
    <<"lit", "O">>, <<"s*", "">>, <<"d4", "">> >>
RECURSIVE EtlTitleFrom(_, _)
\* regex.search(s) from position i on: the position after the match, 0: no match
EtlTitleFrom(s, i) ==
    IF i > Len(s) THEN 0
    ELSE IF MatchItems(ETL_TITLE_ITEMS, s, i, 1) /= 0 THEN MatchItems(ETL_TITLE_ITEMS, s, i, 1)
    ELSE EtlTitleFrom(s, i + 1)
\* int(match.group(1)) of the match that ends before position after
EtlTitleYear(s, after) == DigitsVal(s, after - 4, after - 1)
EtlTitleCell(cell) == cell.t = "str" /\ EtlTitleFrom(cell.s, 1) /= 0
RECURSIVE EtlFindTitleYearFrom(_, _, _)
\* the loop over the cells, row by row, from cell c of row r on
EtlFindTitleYearFrom(values, r, c) ==
    IF r > Len(values) THEN 0
    ELSE IF c > Len(values[r]) THEN EtlFindTitleYearFrom(values, r + 1, 1)
    ELSE IF EtlTitleCell(values[r][c])
      THEN EtlTitleYear(values[r][c].s, EtlTitleFrom(values[r][c].s, 1))
    ELSE EtlFindTitleYearFrom(values, r, c + 1)
\* etl._find_title_year, 0 standing for None
etl_find_title_year(values) == EtlFindTitleYearFrom(values, 1, 1)

\* lines 130-136
EtlIsHeader(normalized) ==
    /\ \E c \in 1..Len(normalized) : normalized[c] = "descripcion"
    /\ \E c \in 1..Len(normalized) : normalized[c] = "acumulado"
    /\ Cardinality({c \in 1..Len(normalized) : normalized[c] \in MonthNames}) >= 3
RECURSIVE EtlHeaderFrom(_, _)
\* header_idx searched from row r on, 0 standing for None
EtlHeaderFrom(df, r) ==
    IF r > Len(df) THEN 0
    ELSE IF EtlIsHeader(EtlRawHeaders(df[r])) THEN r
    ELSE EtlHeaderFrom(df, r + 1)

ETL_TARGET_ROWS == [
    regulados     |-> <<"a emp. distribuidoras", "distribuidoras">>,
    libres        |-> <<"a clientes libres", "clientes libres">>,
    coes          |-> <<"coes">>,
    servicios_aux |-> <<"consumo propio de centrales", "servicios auxiliares">>,
    perdidas      |-> <<"perdidas sistemas transmision", "perdidas", "perdidas sistemas transmisión">> ]

\* data.dropna(how="all"): the rows after the header that hold a value
EtlDataRows(df, header_idx) ==
    SortedSeq({r \in (header_idx + 1)..Len(df) : \E c \in 1..Len(df[r]) : df[r][c].t /= "none"})
\* str(row.get("descripcion", "")) normalised
EtlDesc(cell) == normalize_text(IF cell.t = "none" THEN "None" ELSE StrOf(cell))
\* lines 165-169: the first row of the metric, 0 standing for None
EtlMatchedRow(df, rows, desc_col, metric) ==
    IF \E q \in 1..Len(rows) : match_row(ETL_TARGET_ROWS[metric], EtlDesc(df[rows[q]][desc_col]))
      THEN rows[First({q \in 1..Len(rows) :
                         match_row(ETL_TARGET_ROWS[metric], EtlDesc(df[rows[q]][desc_col]))})]
      ELSE 0
\* lines 171-181 for one metric, r being its row (0: none): its values and
\* the months its row has data in
EtlMetric(df, month_columns, r) ==
    [found   |-> r /= 0,
     values  |-> IF r = 0 THEN Zeros(Len(month_columns))
                 ELSE AsList([k \in 1..Len(month_columns) |-> parse_number(df[r][month_columns[k]])]),
     present |-> AsList([k \in 1..Len(month_columns) |->
                    r /= 0 /\ CellGiven(df[r][month_columns[k]])
                           /\ parse_number(df[r][month_columns[k]]) /= 0])]
EtlMetrics(df, rows, desc_col, month_columns) ==
    [regulados     |-> EtlMetric(df, month_columns, EtlMatchedRow(df, rows, desc_col, "regulados")),
     libres        |-> EtlMetric(df, month_columns, EtlMatchedRow(df, rows, desc_col, "libres")),
     coes          |-> EtlMetric(df, month_columns, EtlMatchedRow(df, rows, desc_col, "coes")),
     servicios_aux |-> EtlMetric(df, month_columns, EtlMatchedRow(df, rows, desc_col, "servicios_aux")),
     perdidas      |-> EtlMetric(df, month_columns, EtlMatchedRow(df, rows, desc_col, "perdidas"))]
\* lines 187-190: the number of the last month column with data, 0: none
EtlLastWithData(metrics, n) ==
    IF \E k \in 1..n : \E m \in DOMAIN metrics : metrics[m].present[k] \/ metrics[m].values[k] /= 0
      THEN SetMax({k \in 1..n : \E m \in DOMAIN metrics :
                        metrics[m].present[k] \/ metrics[m].values[k] /= 0})
      ELSE 0
\* line 192
EtlActiveColumns(month_columns, last_with_data) ==
    IF last_with_data = 0 THEN month_columns ELSE SubSeq(month_columns, 1, last_with_data)
\* active_month_columns.index(target_month) counted from 1, 0: not in the list
EtlIndex(active_month_columns, target_month) ==
    IF \E q \in 1..Len(active_month_columns) : active_month_columns[q] = target_month
      THEN First({q \in 1..Len(active_month_columns) : active_month_columns[q] = target_month})
      ELSE 0
\* lines 194-205 for one metric
EtlAlignedValues(seq, active_month_columns) ==
    AsList([j \in 1..Len(month_order) |->
        IF EtlIndex(active_month_columns, month_order[j]) = 0 THEN 0
        ELSE seq[EtlIndex(active_month_columns, month_order[j])]])
EtlMonthWarning(month) == "Mes '" \o month \o "' no encontrado en el archivo. Se usa 0."
EtlWarnings(metrics, active_month_columns) ==
    LET unmatched(m) == ~metrics[m].found
        absent(m) == EtlIndex(active_month_columns, m) = 0
        rows == SelectSeq(EnergyMetrics, unmatched)
        months == SelectSeq(month_order, absent)
    IN  [i \in 1..Len(rows) |-> MetricWarning(rows[i])]
        \o [i \in 1..Len(months) |-> EtlMonthWarning(months[i])]
\* lines 194-218
EtlAligned(year, metrics, active_month_columns) ==
    [ok |-> TRUE,
     year |-> year,
     months |-> month_order,
     regulados     |-> EtlAlignedValues(metrics.regulados.values, active_month_columns),
     libres        |-> EtlAlignedValues(metrics.libres.values, active_month_columns),
     coes          |-> EtlAlignedValues(metrics.coes.values, active_month_columns),
     servicios_aux |-> EtlAlignedValues(metrics.servicios_aux.values, active_month_columns),
     perdidas      |-> EtlAlignedValues(metrics.perdidas.values, active_month_columns),
     observed_months |-> SelectSeq(month_order, LAMBDA m : EtlIndex(active_month_columns, m) /= 0),
     warnings |-> EtlWarnings(metrics, active_month_columns),
     source_id |-> DEFAULT_SOURCE_ID]
\* lines 184-192
EtlSheetOfMetrics(year, month_names, metrics) ==
    EtlAligned(year, metrics,
               EtlActiveColumns(month_names, EtlLastWithData(metrics, Len(month_names))))
\* lines 141-181; the labels of the header are taken to be distinct, so that a
\* label names one column
EtlSheetOfColumns(df, year, header_idx, raw_headers, month_columns) ==
    EtlSheetOfMetrics(year,
        AsList([k \in 1..Len(month_columns) |-> raw_headers[month_columns[k]]]),
        EtlMetrics(df, EtlDataRows(df, header_idx), DescCol(raw_headers), month_columns))
EtlSheetOfHeader(df, year, header_idx, raw_headers) ==
    EtlSheetOfColumns(df, year, header_idx, raw_headers, MonthColumns(raw_headers))
\* lines 138-139; [ok |-> FALSE] stands for the ValueError raised
EtlSheetAt(df, year, header_idx) ==
    IF header_idx = 0 THEN [ok |-> FALSE]
    ELSE EtlSheetOfHeader(df, year, header_idx, EtlRawHeaders(df[header_idx]))
\* etl._parse_balance_sheet
parse_balance_sheet(df, year) == EtlSheetAt(df, year, EtlHeaderFrom(df, 1))

\* lines 228-231: what one sheet adds to results; the exception of a sheet is
\* logged and the sheet left out
EtlParsed(parsed) == IF parsed.ok THEN <<parsed>> ELSE <<>>
\* lines 225-227
EtlSheetResults(sheet, year) ==
    IF year = 0 THEN <<>> ELSE EtlParsed(parse_balance_sheet(sheet.values, year))
RECURSIVE EtlSheetsFrom(_, _)
\* the loop over the sheets from number n on
EtlSheetsFrom(sheets, n) ==
    IF n > Len(sheets) THEN <<>>
    ELSE EtlSheetResults(sheets[n], etl_find_title_year(sheets[n].values))
         \o EtlSheetsFrom(sheets, n + 1)

(***************************************************************************)
(* Workbooks                                                                *)
(* A worksheet is [title, values]: its name and its grid of cells.  The     *)
(* grids have NumMonthColumns month columns between the description column  *)
(* and the Acumulado column.                                                *)
(***************************************************************************)
\* config.py line 20: the default of XLSX_RETRY_COUNT
XLSX_RETRY_COUNT == 3
MaxSheets == 3
NumMonthColumns == 3
Width == NumMonthColumns + 2

Sheet(title, values) == [title |-> title, values |-> values]
TitleText(year) == "BALANCE DE ENERGÍA EN MWh - AÑO " \o NatToStr(year)
TextRow(text) == AsList([c \in 1..Width |-> IF c = 1 THEN Str(text) ELSE Blank])
TitleRow(year) == TextRow(TitleText(year))
BlankRow == AsList([c \in 1..Width |-> Blank])

LongNames == <<"Enero", "Febrero", "Marzo", "Abril", "Mayo", "Junio", "Julio", "Agosto",
               "Septiembre", "Octubre", "Noviembre", "Diciembre">>
\* the header layouts: the month names of the columns from left to right
HeaderLayouts ==
    { AsList([j \in 1..NumMonthColumns |-> MONTH_ORDER[j]]),
      AsList([j \in 1..NumMonthColumns |-> LongNames[j]]),
      AsList([j \in 1..NumMonthColumns |-> MONTH_ORDER[j + 1]]),
      AsList([j \in 1..NumMonthColumns |-> MONTH_ORDER[NumMonthColumns + 1 - j]]) }
HeaderRow(names) ==
    <<Str("DESCRIPCIÓN")>> \o AsList([j \in 1..NumMonthColumns |-> Str(names[j])])
                           \o <<Str("Acumulado")>>
ShortHeader == HeaderRow(MONTH_ORDER)
LongHeader == HeaderRow(LongNames)

\* what a cell of month column c in data row r holds, by kind
CellKinds == {"number", "text", "zero", "dash", "blank", "junk"}
DataCell(kind, r, c) ==
    IF kind = "number" THEN Num((100 * r + c) * Scale)
    ELSE IF kind = "text" THEN Str(NatToStr(r) \o "." \o NatToStr(c) \o "00,50")
    ELSE IF kind = "zero" THEN Num(0)
    ELSE IF kind = "dash" THEN Str("-")
    ELSE IF kind = "junk" THEN Str("n.d.")
    ELSE Blank
\* a data row: its label, a cell of kinds[c] in month column c, no total
LabelRow(label, r, kinds) ==
    <<Str(label)>> \o AsList([c \in 1..NumMonthColumns |-> DataCell(kinds[c], r, c)]) \o <<Blank>>
\* the rows of the labels, cell (r, c) of kind kinds[r][c]
LabelRows(labels, kinds) == AsList([r \in 1..Len(labels) |-> LabelRow(labels[r], r, kinds[r])])
\* every row with the same kinds
SameKinds(labels, mask) == AsList([r \in 1..Len(labels) |-> mask])

ColumnMasks == [1..NumMonthColumns -> CellKinds]
\* numbers in the first j columns, blanks after
Leading(j) == AsList([c \in 1..NumMonthColumns |-> IF c <= j THEN "number" ELSE "blank"])
TrailingMasks == {Leading(j) : j \in 0..NumMonthColumns}
\* an explicit 0 in every column
ZeroMask == AsList([c \in 1..NumMonthColumns |-> "zero"])
GapMask == AsList([c \in 1..NumMonthColumns |-> IF c = 2 THEN "blank" ELSE "number"])
EdgeMasks == TrailingMasks \cup {GapMask}

VENTA_BANNER == "Venta de energía"
COMPRA_BANNER == "Compra de energía"
VentaLabels == <<"A emp. Distribuidoras", "A clientes Libres", "COES">>
PlainLabels == VentaLabels \o <<"Consumo propio de centrales", "Pérdidas Sistemas Transmisión">>
\* a Venta section, then a Compra section with rows of its own
SectionLabels == <<VENTA_BANNER>> \o VentaLabels
                 \o <<COMPRA_BANNER, "COES", "A clientes Libres",
                      "Consumo propio de centrales", "Pérdidas Sistemas Transmisión">>
SaleLibresRow == Len(VentaLabels)
SaleCoesRow == Len(VentaLabels) + 1
PurchaseBannerRow == Len(VentaLabels) + 2
PurchaseCoesRow == Len(VentaLabels) + 3
MoneyLabels == <<"Regulados", "Libres", "COES", "Otros">>

\* a table without banner, every column of one kind
MaskSheets ==
    { Sheet("Balance 2025",
            <<TitleRow(2025), ShortHeader>> \o LabelRows(VentaLabels, SameKinds(VentaLabels, mask)))
        : mask \in ColumnMasks }
\* a table without banner, row r with numbers in its first len[r] columns
RaggedSheets ==
    { Sheet("Balance 2025",
            <<TitleRow(2025), ShortHeader>>
            \o LabelRows(VentaLabels, AsList([r \in 1..3 |-> Leading(len[r])])))
        : len \in [1..3 -> 0..NumMonthColumns] }
\* the sample workbook's sheet under every header layout, its rows as they
\* are or under a Venta banner
LayoutSheets ==
    { Sheet("Balance 2025",
            <<TitleRow(2025), BlankRow, BlankRow, HeaderRow(names)>>
            \o banner \o LabelRows(PlainLabels, SameKinds(PlainLabels, mask)))
        : names \in HeaderLayouts, mask \in EdgeMasks,
          banner \in {<<>>, <<TextRow(VENTA_BANNER)>>} }
\* the kinds of a table with banners: the Compra banner row is blank, row
\* zeroed (0: none) holds zeros
SectionKinds(mask, zeroed) ==
    AsList([r \in 1..Len(SectionLabels) |->
        IF r = PurchaseBannerRow THEN Leading(0)
        ELSE IF r = zeroed THEN AsList([c \in 1..NumMonthColumns |-> "zero"])
        ELSE mask])
SectionSheets ==
    { Sheet("2019", <<TitleRow(2019), BlankRow, LongHeader>>
                    \o LabelRows(SectionLabels, SectionKinds(mask, zeroed)))
        : mask \in TrailingMasks, zeroed \in {0, SaleLibresRow, SaleCoesRow, PurchaseCoesRow} }
\* a row with the values given in the leading columns
ValueRow(label, values, total) ==
    <<Str(label)>>
    \o AsList([c \in 1..NumMonthColumns |->
                  IF c <= Len(values) THEN Num(values[c] * Scale) ELSE Blank])
    \o <<total>>
\* the workbook of test_spot_computed_as_residual
ResidualSheet ==
    Sheet("2019",
          << TitleRow(2019), BlankRow, LongHeader,
             ValueRow(VENTA_BANNER, <<90, 92, 95>>, Num(277 * Scale)),
             ValueRow("A emp. Distribuidoras", <<10, 11, 12>>, Num(33 * Scale)),
             ValueRow("A clientes Libres", <<20, 21, 22>>, Num(63 * Scale)),
             ValueRow("COES", <<50, 60, 70>>, Num(180 * Scale)),
             ValueRow(COMPRA_BANNER, <<>>, Blank),
             ValueRow("COES", <<0, 0, 0>>, Num(0)),
             ValueRow("Consumo propio de centrales", <<5, 6, 7>>, Num(18 * Scale)),
             ValueRow("Pérdidas Sistemas Transmisión", <<1, 2, 3>>, Num(6 * Scale)) >>)
\* rows before the first banner, then a Venta section
MixedSheets ==
    { Sheet("2019", <<TitleRow(2019), ShortHeader>>
                    \o LabelRows(<<"COES", VENTA_BANNER, "A emp. Distribuidoras", "COES">>,
                                 <<Leading(NumMonthColumns), Leading(0), mask, mask>>))
        : mask \in {Leading(0), Leading(1), ZeroMask} }
\* an energy table and, after a blank row, a monetary table or a second
\* energy table
MoneySheets ==
    { Sheet("Balance 2025",
            <<TitleRow(2025), ShortHeader>>
            \o LabelRows(PlainLabels, SameKinds(PlainLabels, mask))
            \o <<BlankRow, TextRow(caption), ShortHeader>>
            \o LabelRows(MoneyLabels, SameKinds(MoneyLabels, Leading(NumMonthColumns))))
        : mask \in {Leading(2), GapMask}, caption \in {"VENTAS (Millones de S/.)", "Detalle"} }
\* a small energy table with its header
SmallTable ==
    <<ShortHeader, LabelRow("A emp. Distribuidoras", 1, Leading(NumMonthColumns)),
      LabelRow("COES", 2, Leading(NumMonthColumns))>>
MONEY_CAPTION == "Millones de soles"
\* a table above the title row or none, the energy table and the monetary
\* table of the year, then a third table of one of the two kinds
StackedSheets ==
    { Sheet("Balance 2025",
            above \o <<TitleRow(2025), ShortHeader>>
            \o LabelRows(PlainLabels, SameKinds(PlainLabels, Leading(2)))
            \o <<BlankRow, TextRow(MONEY_CAPTION), ShortHeader>>
            \o LabelRows(MoneyLabels, SameKinds(MoneyLabels, Leading(2)))
            \o <<BlankRow, TextRow(caption), ShortHeader>>
            \o LabelRows(third, SameKinds(third, Leading(NumMonthColumns))))
        : above \in {<<>>, SmallTable \o <<BlankRow>>},
          caption \in {MONEY_CAPTION, "Detalle"},
          third \in {PlainLabels, MoneyLabels, <<"COES">>} }
\* the texts found above a header
Captions == {"Millones", "Ventas en soles", "S/.", "Monetario", "Ventas", "Miles de S /"}
\* four rows, the one at distance d above the row that follows holding the text
CaptionRows(caption, d) ==
    AsList([r \in 1..4 |-> IF 5 - r = d THEN TextRow(caption) ELSE TextRow("Nota")])
\* an energy table, then a header with a caption at distance d above it and
\* a table whose first row is labelled below
ContextSheets ==
    { Sheet("Balance 2025",
            <<TitleRow(2025), ShortHeader>>
            \o LabelRows(VentaLabels, SameKinds(VentaLabels, Leading(2)))
            \o <<BlankRow>> \o CaptionRows(caption, d) \o <<ShortHeader>>
            \o LabelRows(<<below, "Regulados">>, <<Leading(1), Leading(NumMonthColumns)>>))
        : caption \in Captions, d \in 1..4, below \in {"Libres", "Saldo en millones de soles"} }
\* a row before the first banner, a row that may be a banner, with cells of
\* its own or without, then rows of the Venta metrics, two of them COES rows
BannerLabels ==
    {VENTA_BANNER, COMPRA_BANNER, "Total venta de energía", "Venta energía", "Ventas"}
BannerSheets ==
    { Sheet("2019", <<TitleRow(2019), ShortHeader>>
                    \o LabelRows(<<"COES", banner, "COES", "A emp. Distribuidoras", "COES">>,
                                 <<Leading(1), mask, Leading(2), Leading(2), Leading(2)>>))
        : banner \in BannerLabels, mask \in {Leading(0), Leading(NumMonthColumns)} }
\* the rows of the ancillary services and of the losses, in and out of sections
AuxLabelings ==
    { <<"Consumo propio de centrales", "Servicios auxiliares", "Servicios auxiliares SSEE">>,
      <<"Servicios auxiliares", "Consumo propio de centrales", "Pérdidas">>,
      <<"Consumo propio", "Consumo propio de centrales", "Pérdidas">>,
      <<VENTA_BANNER, "Consumo propio de centrales", "Pérdidas", COMPRA_BANNER,
        "Servicios auxiliares">>,
      <<COMPRA_BANNER, "Pérdidas Sistemas Transmisión", "Consumo propio de centrales",
        VENTA_BANNER, "COES">>,
      <<"SSAA", "COES", "Pérdidas">> }
AuxSheets ==
    { Sheet("2019", <<TitleRow(2019), ShortHeader>>
                    \o LabelRows(labels, AsList([r \in 1..Len(labels) |->
                            IF r = zeroed THEN ZeroMask ELSE Leading(2)])))
        : labels \in AuxLabelings, zeroed \in 0..2 }
\* a table, a row without content, then rows with the labels of metrics
TailLabels == <<"COES", "Servicios auxiliares", "Pérdidas", "Mercado regulado">>
TailSheets ==
    { Sheet("2019", <<TitleRow(2019), ShortHeader>>
                    \o LabelRows(head, SameKinds(head, Leading(1)))
                    \o <<gap>>
                    \o LabelRows(TailLabels, SameKinds(TailLabels, mask)))
        : head \in {<<"A clientes Libres">>, <<"A clientes Libres", "COES">>},
          gap \in {BlankRow, TextRow("  ")},
          mask \in {Leading(NumMonthColumns), AsList([c \in 1..NumMonthColumns |-> "junk"])} }
GridSheets ==
    MaskSheets \cup RaggedSheets \cup LayoutSheets \cup SectionSheets \cup {ResidualSheet}
    \cup MixedSheets \cup MoneySheets \cup StackedSheets \cup ContextSheets
    \cup BannerSheets \cup AuxSheets \cup TailSheets

\* the two sheets of the tests' sample workbook
SampleWorkbook ==
    << Sheet("Balance 2025",
             << TitleRow(2025), BlankRow, BlankRow, ShortHeader,
                ValueRow("A emp. Distribuidoras", <<1000, 1100>>, Num(2100 * Scale)),
                ValueRow("A clientes Libres", <<500, 600>>, Num(1100 * Scale)),
                ValueRow("COES", <<200, 250>>, Num(450 * Scale)),
                ValueRow("Consumo propio de centrales", <<50, 55>>, Num(105 * Scale)),
                ValueRow("Pérdidas Sistemas Transmisión", <<20, 25>>, Num(45 * Scale)) >>),
       Sheet("Balance 2024",
             << TitleRow(2024), BlankRow, BlankRow, ShortHeader,
                ValueRow("A emp. Distribuidoras", <<900, 950, 1000>>, Num(2850 * Scale)),
                ValueRow("A clientes Libres", <<400, 420, 430>>, Num(1250 * Scale)),
                ValueRow("COES", <<150, 155, 160>>, Num(465 * Scale)),
                ValueRow("Consumo propio de centrales", <<30, 32, 33>>, Num(95 * Scale)),
                ValueRow("Pérdidas Sistemas Transmisión", <<15, 14, 16>>, Num(45 * Scale)) >>) >>

\* a sheet named title whose title cell, if any (0: none), names year
Titled(title, year) ==
    Sheet(title, (IF year = 0 THEN <<>> ELSE <<TitleRow(year)>>) \o SmallTable)
\* sheets told apart by their names
NamedSheets == <<
    Titled("2018", 2018), Titled("2018-R1", 2018), Titled("2018-R2 (LDS)", 2018),
    Titled("2018 V1", 2018), Titled("2018 REV", 2018), Titled("2018 REV3", 2018),
    Titled("2018 REV1", 2018), Titled("REV 2018", 2018), Titled("2025V1", 2025),
    Titled("2016 (rev3)", 2016),
    \* a year in the name only
    Titled("2017", 0),
    \* the name and the title cell disagree
    Titled("2021", 2019),
    \* a title cell and a table under a name without year
    Titled("Perfil", 2020),
    \* no header row
    Sheet("2020", <<TitleRow(2020), LabelRow("COES", 1, Leading(NumMonthColumns))>>),
    \* a monetary table only
    Sheet("2022", <<TitleRow(2022), TextRow("Millones de soles"), ShortHeader,
                    LabelRow("Regulados", 1, Leading(NumMonthColumns))>>),
    \* an empty sheet
    Sheet("R", <<BlankRow>>) >>
\* the sheets the longer workbooks are made of
CoreSheets == <<NamedSheets[1], NamedSheets[3], NamedSheets[11], NamedSheets[13], NamedSheets[14]>>
\* the orderings of n different sheets of the sequence pool
Orderings(pool, n) ==
    { AsList([j \in 1..n |-> pool[f[j]]]) :
        f \in {g \in [1..n -> 1..Len(pool)] : \A a, b \in 1..n : a /= b => g[a] /= g[b]} }
Workbooks ==
    {<<sheet>> : sheet \in GridSheets}
    \cup {SampleWorkbook}
    \cup Orderings(NamedSheets, 1) \cup Orderings(NamedSheets, 2)
    \cup UNION {Orderings(CoreSheets, n) : n \in 3..MaxSheets}

(***************************************************************************)
(* The state machine: BalanceTransformer(workbook).transform(), then        *)
(* etl.parse_balance_workbook on the same workbook                          *)
(***************************************************************************)
VARIABLES
    worksheets,   \* workbook.worksheets
    pc,           \* where transform is: "selecting", "parsing", "returned", "raised"
    i,            \* the sheet _select_candidates is at
    selected,     \* the dictionary selected: year -> candidate
    order,        \* the keys of selected in insertion order
    k,            \* the candidate the loop of transform is at
    results,      \* results of transform
    error,        \* the error transform raised, "" standing for none
    etl_pc,       \* where parse_balance_workbook is: "idle", "returned", "raised"
    etl_results,  \* what parse_balance_workbook returned
    run,          \* the number of the transform invocation on this workbook
    first,        \* what the first invocation returned, as the caller received it
    timers,       \* ExcelEventHandler._timers: path -> the timer stored for it
    timer,        \* the threading.Timer objects made so far, in order of creation
    observer,     \* where the observer thread is in _schedule
    since,        \* per path, the ticks since its last event, up to the debounce
    burst_runs,   \* per path, the ETL runs started since its current burst began
    early,        \* per path, whether a run started less than the debounce after an event
    lost,         \* whether _schedule raised and left an event without timer
    events,       \* the number of events delivered
    content,      \* per path, the version of the file's content: the changes made to it
    job,          \* per timer, what its run of process_balance_file read and saved
    persisted,    \* per path, the version of the file the rows in the database were read from
    retry_count,  \* config.XLSX_RETRY_COUNT as the environment set it
    retry_pc,     \* where parse_with_retries is
    attempt,      \* attempt of parse_with_retries
    last_exc,     \* last_exc of parse_with_retries, "" standing for None
    outcomes,     \* what each call of parse_balance_workbook gave, in order
    sleeps,       \* after which attempts time.sleep was called
    retry_result, \* what parse_with_retries returned or raised
    cell_raw,     \* the value parse_number is called with
    cell_parsed,  \* what parse_number returned, once it has
    ingest_pc,    \* where process_balance_file is
    ingest_results, \* results of process_balance_file: the years parsed, in order
    ingest_at,    \* the result the loop of process_balance_file is at
    ingest_exc,   \* the exception raised inside the try block, "" standing for none
    balance_rows, \* per year, whose rows balance_monthly and balance_metadata hold
    rows_before,  \* balance_rows when process_balance_file was called
    sources,      \* who wrote the row of the source in the table sources
    etl_runs,     \* the statuses record_etl_run inserted, in order
    dispatched,   \* the events handed to dispatch_event, in order
    loop,         \* main.loop is set
    subscribers,  \* EventBroker.subscribers: the queues, in order of subscription
    queues,       \* the queues made by subscribe, with what was put on and taken from them
    ready,        \* the publish coroutines scheduled on the event loop, oldest first
    published,    \* the events publish was run with, in the order it ran
    dropped,      \* the events _dispatch_event returned on without scheduling
    dispatches    \* the number of calls of _dispatch_event
caller_vars == <<month_order, run, first>>
transform_vars ==
    <<worksheets, pc, i, selected, order, k, results, error, etl_pc, etl_results>>
watcher_vars ==
    <<timers, timer, observer, since, burst_runs, early, lost, events, content, job, persisted>>
retry_vars == <<retry_count, retry_pc, attempt, last_exc, outcomes, sleeps, retry_result>>
number_vars == <<cell_raw, cell_parsed>>
ingest_vars ==
    <<ingest_pc, ingest_results, ingest_at, ingest_exc, balance_rows, rows_before, sources,
      etl_runs, dispatched>>
broker_vars == <<loop, subscribers, queues, ready, published, dropped, dispatches>>
\* what neither transform nor parse_balance_workbook assigns
untouched == <<caller_vars, watcher_vars, retry_vars, number_vars, ingest_vars, broker_vars>>
vars == <<transform_vars, untouched>>

\* no workbook was handed to the transformer or to parse_balance_workbook
TransformOff ==
    /\ worksheets = <<>>
    /\ pc = "done"
    /\ i = 0
    /\ selected = <<>>
    /\ order = <<>>
    /\ k = 0
    /\ results = <<>>
    /\ error = ""
    /\ etl_pc = "done"
    /\ etl_results = <<>>
    /\ month_order = MONTH_ORDER
    /\ run = 1
    /\ first = <<>>
\* parse_number is not called on its own
NumberOff ==
    /\ cell_raw = Blank
    /\ cell_parsed = [done |-> FALSE]
\* no watcher was started
WatcherOff ==
    /\ timers = <<>>
    /\ timer = <<>>
    /\ observer = [at |-> "idle"]
    /\ since = <<>>
    /\ burst_runs = <<>>
    /\ early = <<>>
    /\ lost = FALSE
    /\ events = 0
    /\ content = <<>>
    /\ job = <<>>
    /\ persisted = <<>>
\* process_balance_file was not called
IngestOff ==
    /\ ingest_pc = "idle"
    /\ ingest_results = <<>>
    /\ ingest_at = 0
    /\ ingest_exc = ""
    /\ balance_rows = <<>>
    /\ rows_before = <<>>
    /\ sources = ""
    /\ etl_runs = <<>>
    /\ dispatched = <<>>
\* the application was not started
BrokerOff ==
    /\ loop = FALSE
    /\ subscribers = <<>>
    /\ queues = <<>>
    /\ ready = <<>>
    /\ published = <<>>
    /\ dropped = {}
    /\ dispatches = 0
\* parse_with_retries was not called
RetryOff ==
    /\ retry_count = XLSX_RETRY_COUNT
    /\ retry_pc = "idle"
    /\ attempt = 0
    /\ last_exc = ""
    /\ outcomes = <<>>
    /\ sleeps = <<>>
    /\ retry_result = ""

NO_YEAR_TITLE == "No se encontró un título 'BALANCE DE ENERGÍA EN MWh - AÑO YYYY' en el Excel."

Init ==
    /\ worksheets \in Workbooks
    /\ pc = "selecting"
    /\ i = 1
    /\ selected = <<>>
    /\ order = <<>>
    /\ k = 1
    /\ results = <<>>
    /\ error = ""
    /\ etl_pc = "idle"
    /\ etl_results = <<>>
    /\ month_order = MONTH_ORDER
    /\ run = 1
    /\ first = <<>>
    /\ WatcherOff
    /\ RetryOff
    /\ NumberOff
    /\ IngestOff
    /\ BrokerOff

\* a variant that reads the year in the cells of sheet n
SheetYearOfCells(n) == find_title_year(worksheets[n].values)
\* line 255: the year read in the name of sheet n, 0 standing for None
SheetYear(n) == extract_year_from_title(worksheets[n].title)
\* lines 259-266: the candidate of sheet n, score being what _score_version gave
CandidateOf(n, year, score) ==
    [year |-> year, sheet_name |-> worksheets[n].title,
     version_priority |-> score.priority, revision_number |-> score.revision_number,
     sheet |-> n]
SheetCandidate(n) ==
    CandidateOf(n, SheetYear(n), score_version(worksheets[n].title))

\* a rule under which only a higher priority replaces
is_higher(candidate, current) == candidate.version_priority > current.version_priority
\* lines 275-279
is_better(candidate, current) ==
    IF candidate.version_priority /= current.version_priority
      THEN candidate.version_priority > current.version_priority
      ELSE candidate.revision_number >= current.revision_number

Selecting == pc = "selecting" /\ i <= Len(worksheets)
\* lines 255-258: a sheet without year in its name is ignored
SkipSheet ==
    /\ Selecting
    /\ SheetYear(i) = 0
    /\ i' = i + 1
    /\ UNCHANGED <<worksheets, pc, selected, order, k, results, error, etl_pc, etl_results>>
    /\ UNCHANGED untouched
\* existing is None or self._is_better(candidate, existing)
Wins(candidate) ==
    IF candidate.year \in DOMAIN selected
      THEN is_better(candidate, selected[candidate.year]) ELSE TRUE
Keep(candidate) ==
    /\ candidate.year /= 0
    /\ Wins(candidate)
    /\ selected' = (candidate.year :> candidate) @@ selected
    /\ order' = IF candidate.year \in DOMAIN selected THEN order ELSE Append(order, candidate.year)
\* lines 268-270
SelectSheet ==
    /\ Selecting
    /\ Keep(SheetCandidate(i))
    /\ i' = i + 1
    /\ UNCHANGED <<worksheets, pc, k, results, error, etl_pc, etl_results>>
    /\ UNCHANGED untouched
Drop(candidate) == candidate.year /= 0 /\ ~Wins(candidate)
\* lines 271-272
DiscardSheet ==
    /\ Selecting
    /\ Drop(SheetCandidate(i))
    /\ i' = i + 1
    /\ UNCHANGED <<worksheets, pc, selected, order, k, results, error, etl_pc, etl_results>>
    /\ UNCHANGED untouched
\* line 273: _select_candidates returns
CandidatesSelected ==
    /\ pc = "selecting"
    /\ i > Len(worksheets)
    /\ pc' = "parsing"
    /\ UNCHANGED <<worksheets, i, selected, order, k, results, error, etl_pc, etl_results>>
    /\ UNCHANGED untouched

\* lines 245-246: the result is appended; the ValueError of _parse_sheet is
\* not caught and ends transform
Parsed(parsed) ==
    IF parsed.ok
      THEN /\ results' = Append(results, parsed)
           /\ k' = k + 1
           /\ UNCHANGED <<pc, error>>
      ELSE /\ pc' = "raised"
           /\ error' = parsed.error
           /\ results' = <<>>
           /\ UNCHANGED k
ParseCandidate(candidate) ==
    Parsed(parse_sheet(worksheets[candidate.sheet].values, candidate.year, candidate.sheet_name))
ParseSheet ==
    /\ pc = "parsing"
    /\ k <= Len(order)
    /\ ParseCandidate(selected[order[k]])
    /\ UNCHANGED <<worksheets, i, selected, order, etl_pc, etl_results>>
    /\ UNCHANGED untouched

\* a variant that leaves the list in the order of selection
Unsorted(list) == list
RECURSIVE SortByYear(_)
\* results.sort(key=lambda r: r.year): a stable sort
SortByYear(list) ==
    IF list = <<>> THEN <<>>
    ELSE SortByYear(SelectSeq(Tail(list), LAMBDA r : r.year < Head(list).year))
         \o <<Head(list)>>
         \o SortByYear(SelectSeq(Tail(list), LAMBDA r : r.year >= Head(list).year))
\* lines 249-250
ReturnResults ==
    /\ pc = "parsing"
    /\ k > Len(order)
    /\ results /= <<>>
    /\ results' = SortByYear(results)
    /\ pc' = "returned"
    /\ UNCHANGED <<worksheets, i, selected, order, k, error, etl_pc, etl_results>>
    /\ UNCHANGED untouched
\* lines 247-248
RaiseNoResults ==
    /\ pc = "parsing"
    /\ k > Len(order)
    /\ results = <<>>
    /\ pc' = "raised"
    /\ error' = NO_YEAR_TITLE
    /\ UNCHANGED <<worksheets, i, selected, order, k, results, etl_pc, etl_results>>
    /\ UNCHANGED untouched

\* etl.py lines 232-234
EtlEnd(found) ==
    /\ etl_results' = found
    /\ etl_pc' = IF found = <<>> THEN "raised" ELSE "returned"
\* etl.parse_balance_workbook, run on the workbook once transform has ended
ParseBalanceWorkbook ==
    /\ pc \in {"returned", "raised"}
    /\ etl_pc = "idle"
    /\ EtlEnd(EtlSheetsFrom(worksheets, 1))
    /\ UNCHANGED <<worksheets, pc, i, selected, order, k, results, error>>
    /\ UNCHANGED untouched

Next ==
    \/ SkipSheet
    \/ SelectSheet
    \/ DiscardSheet
    \/ CandidatesSelected
    \/ ParseSheet
    \/ ReturnResults
    \/ RaiseNoResults
    \/ ParseBalanceWorkbook

Spec == Init /\ [][Next]_vars

(***************************************************************************)
(* Properties                                                               *)
(***************************************************************************)
Returned == pc = "returned"
Selected == pc = "parsing"
\* the grid of the sheet a result was read from
SourceOf(result) == worksheets[selected[result.year].sheet].values
SheetYears == {SheetYear(n) : n \in 1..Len(worksheets)} \ {0}

\* What a grid shows, read off its cells.
\* the text a row starts with, "" when it starts with no text
LabelAt(values, r) == IF values[r][1].t = "str" THEN values[r][1].s ELSE ""
RowsLabelled(values, label) == {r \in 1..Len(values) : LabelAt(values, r) = label}
\* the first header row, 0: none
HeaderAt(values) ==
    IF RowsLabelled(values, "DESCRIPCIÓN") = {} THEN 0
    ELSE First(RowsLabelled(values, "DESCRIPCIÓN"))
\* the header rows of a grid classified as energy, and as monetary
EnergyHeaders(df, rows) == {h \in rows : ~IsSales(df, h)}
MoneyHeaders(df, rows) == {h \in rows : IsSales(df, h)}
\* the header rows under the title row of the year, all of them when there
\* is no such row or none under it
UnderTitle(df, year) == HeadersBelow(HeaderRows(df), locate_title_row(df, year))
\* the energy header a result was read from
EnergyHeaderOf(result) ==
    First(EnergyHeaders(SourceOf(result), UnderTitle(SourceOf(result), result.year)))
\* a row without content: no cell of it holds more than white space
EmptyCell(cell) == cell = Blank \/ (cell.t = "str" /\ Strip(cell.s) = "")
EmptyRow(row) == \A c \in 1..Len(row) : EmptyCell(row[c])
\* the rows of the table under header row h: those before the first empty row
TableRowsOf(values, h) ==
    {r \in (h + 1)..Len(values) : \A q \in (h + 1)..r : ~EmptyRow(values[q])}
\* the month a column of header row h names
MonthOf(values, h, c) == canonical_header(values[h][c])
\* the month columns of header row h, from left to right
MonthColumnsOf(values, h) ==
    SortedSeq({c \in 1..Len(values[h]) : MonthOf(values, h, c) \in MonthNames})
\* the series holds, at the month of every month column, the value of row r
SeriesFromRow(series, values, h, r) ==
    \A c \in 1..Len(values[h]) :
        MonthOf(values, h, c) \in MonthNames
            => series[MonthIndex(MonthOf(values, h, c))] = parse_number(values[r][c])
METRIC_LABEL ==
    [regulados |-> "A emp. Distribuidoras", libres |-> "A clientes Libres", coes |-> "COES",
     servicios_aux |-> "Consumo propio de centrales",
     perdidas |-> "Pérdidas Sistemas Transmisión"]

\* C1: every result transform returns has twelve entries in each of its five
\* energy series and in each of its four sales series when it has sales, has
\* a last month, and has 0 in every energy entry after that month.
SeriesComplete(result) ==
    /\ \A m \in DOMAIN result.energy : Len(result.energy[m]) = 12
    /\ \A q \in 1..Len(result.sales) :
           \A m \in DOMAIN result.sales[q] : Len(result.sales[q][m]) = 12
ZeroAfterLastMonth(result) ==
    /\ result.last_month \in MonthNames
    /\ \A m \in DOMAIN result.energy : \A j \in 1..12 :
           j > MonthIndex(result.last_month) => result.energy[m][j] = 0
C1_SeriesOfTwelve ==
    Returned => \A n \in 1..Len(results) :
                    SeriesComplete(results[n]) /\ ZeroAfterLastMonth(results[n])
\* a result with sales whose energy ends in Feb while its sales go on
C1_TrimmedWithSales ==
    /\ Returned
    /\ \E n \in 1..Len(results) :
          /\ results[n].sales /= <<>>
          /\ results[n].last_month = "Feb"
          /\ results[n].energy.coes[2] /= 0
          /\ results[n].sales[1].otros[3] /= 0

\* C2 (as the specification states it): in every result transform returns,
\* observed_months is a prefix of Ene..Dic, and last_month is its last member.
IsPrefixOf(s, t) == Len(s) <= Len(t) /\ \A j \in 1..Len(s) : s[j] = t[j]
C2_ObservedIsPrefix ==
    Returned => \A n \in 1..Len(results) :
        /\ IsPrefixOf(results[n].observed_months, MONTH_ORDER)
        /\ results[n].observed_months /= <<>>
              => results[n].last_month
                     = results[n].observed_months[Len(results[n].observed_months)]
\* a month column blank in every row between two columns with data
C2_ObservedWithGap ==
    Returned /\ \E n \in 1..Len(results) : results[n].observed_months = <<"Ene", "Mar">>

\* The marker of a sheet title, read off its words: a word, the digits before
\* it left out, is R2, R1, V1, or REV with digits or none after it.
MarkedRank(t) ==
    IF t = "R2" THEN 4 ELSE IF t = "R1" THEN 3 ELSE IF t = "V1" THEN 2
    ELSE IF StartsWith(t, "REV") /\ \A q \in 4..Len(t) : IsDigit(Char(t, q)) THEN 1
    ELSE 0
WordRank(word) ==
    IF DigitRunEnd(word, 1) > Len(word) THEN 0
    ELSE MarkedRank(ToUpper(SubSeq(word, DigitRunEnd(word, 1), Len(word))))
RankMax(x, y) == IF x >= y THEN x ELSE y
RECURSIVE TitleRankFrom(_, _, _)
TitleRankFrom(title, j, word) ==
    IF j > Len(title) THEN WordRank(word)
    ELSE IF IsDigit(Char(title, j)) \/ IsAsciiLetter(Char(title, j))
      THEN TitleRankFrom(title, j + 1, word \o Char(title, j))
    ELSE RankMax(WordRank(word), TitleRankFrom(title, j + 1, ""))
\* 4 for R2, 3 for R1, 2 for V1, 1 for REV and REVn, 0 for no marker
MarkerRank(title) == TitleRankFrom(title, 1, "")

\* C3 (as the specification states it): after _select_candidates, the years
\* kept are those of the sheets with a year in their name, and the sheet kept
\* for a year is a sheet of that year whose marker is the highest of the
\* year's sheets, R2 over R1 over V1 over REV over none.
C3_HighestMarkerKept ==
    Selected =>
        /\ DOMAIN selected = SheetYears
        /\ \A y \in DOMAIN selected :
              /\ SheetYear(selected[y].sheet) = y
              /\ \A n \in 1..Len(worksheets) :
                    SheetYear(n) = y
                        => MarkerRank(selected[y].sheet_name) >= MarkerRank(worksheets[n].title)
\* a REV sheet kept for a year that has a V1 sheet
C3_RevKeptOverV1 ==
    /\ Selected
    /\ 2018 \in DOMAIN selected
    /\ selected[2018].sheet_name = "2018 REV1"
    /\ \E n \in 1..Len(worksheets) : worksheets[n].title = "2018 V1"

\* C4: when transform returns, the years of its results are the years of the
\* sheets with a year in their name, and the results are in strictly
\* ascending order of year, so no two share a year.
C4_OnePerYearAscending ==
    Returned =>
        /\ {results[n].year : n \in 1..Len(results)} = SheetYears
        /\ \A a, b \in 1..Len(results) : a < b => results[a].year < results[b].year
\* results returned for years that were selected in descending order
C4_SortedAfterDescending ==
    Returned /\ Len(results) >= 2 /\ order[1] > order[2]

\* C5 (as the specification states it): transform raises only when no sheet
\* of the workbook has a year in its name.
C5_RaisesOnlyWithoutYear ==
    pc = "raised" => SheetYears = {}
\* transform raised on its second year, the first having been parsed
C5_ParsedYearLost ==
    pc = "raised" /\ error = "no header row" /\ Len(order) = 2 /\ k = 2

\* the table has the Venta banner in row v, one row for each Venta metric,
\* the Compra banner in row p and a COES row after it
SaleThenPurchase(values, rows, v, p) ==
    /\ RowsLabelled(values, VENTA_BANNER) \cap rows = {v}
    /\ RowsLabelled(values, COMPRA_BANNER) \cap rows = {p}
    /\ \A r \in rows : r >= v
    /\ \A q \in 1..Len(VentaLabels) :
           Cardinality({r \in RowsLabelled(values, VentaLabels[q]) : v < r /\ r < p}) = 1
    /\ \E r \in RowsLabelled(values, "COES") \cap rows : r > p
\* the row of the label between the banners
SaleRowOf(values, v, p, label) ==
    CHOOSE r \in RowsLabelled(values, label) : v < r /\ r < p
FromSaleRows(result, values, h, v, p) ==
    \A m \in {"regulados", "libres", "coes"} :
        SeriesFromRow(result.energy[m], values, h, SaleRowOf(values, v, p, METRIC_LABEL[m]))
SaleRowsAreTheSource(result, values, h, rows) ==
    \A v, p \in rows :
        SaleThenPurchase(values, rows, v, p) => FromSaleRows(result, values, h, v, p)
SaleSourceIn(result, values, h) ==
    h /= 0 => SaleRowsAreTheSource(result, values, h, TableRowsOf(values, h))
PurchaseCoesLeftOut(result, values, h, rows) ==
    /\ \E v, p \in rows :
          /\ SaleThenPurchase(values, rows, v, p)
          /\ \E r \in RowsLabelled(values, "COES") \cap rows :
                r > p /\ \E c \in 1..Len(values[r]) : values[r][c].t = "num" /\ values[r][c].n /= 0
    /\ AllZero(result.energy.coes)
    /\ ~AllZero(result.energy.regulados)
FirstAfter(values, rows, v, label) ==
    First({r \in RowsLabelled(values, label) \cap rows : r > v})
\* row v holds a total in every month column that the two rows hold a value in
CarriesTotals(values, h, v, reg, lib) ==
    \A c \in 1..Len(values[h]) :
        (MonthOf(values, h, c) \in MonthNames /\ values[reg][c].t = "num" /\ values[lib][c].t = "num")
            => values[v][c].t = "num" /\ values[v][c].n /= 0
ResidualOf(series, values, h, v, reg, lib) ==
    \A c \in 1..Len(values[h]) :
        MonthOf(values, h, c) \in MonthNames
            => series[MonthIndex(MonthOf(values, h, c))]
                 = parse_number(values[v][c]) - parse_number(values[reg][c])
                   - parse_number(values[lib][c])
ResidualUnder(series, values, h, rows, v) ==
    (/\ \E r \in RowsLabelled(values, METRIC_LABEL.regulados) \cap rows : r > v
     /\ \E r \in RowsLabelled(values, METRIC_LABEL.libres) \cap rows : r > v
     /\ CarriesTotals(values, h, v, FirstAfter(values, rows, v, METRIC_LABEL.regulados),
                      FirstAfter(values, rows, v, METRIC_LABEL.libres)))
        => ResidualOf(series, values, h, v, FirstAfter(values, rows, v, METRIC_LABEL.regulados),
                      FirstAfter(values, rows, v, METRIC_LABEL.libres))
ResidualIn(series, values, h, rows) ==
    \A v \in RowsLabelled(values, VENTA_BANNER) \cap rows : ResidualUnder(series, values, h, rows, v)
\* C7 (as the specification states it): for a sheet whose Venta de energía
\* row carries the monthly totals, the coes series parse_balance_workbook
\* returns is, at every month, the total less the regulated row less the
\* free row.
C7_CoesIsResidual ==
    (etl_pc = "returned" /\ Len(worksheets) = 1 /\ HeaderAt(worksheets[1].values) /= 0)
        => ResidualIn(etl_results[1].coes, worksheets[1].values, HeaderAt(worksheets[1].values),
                      TableRowsOf(worksheets[1].values, HeaderAt(worksheets[1].values)))
\* the workbook of the test: both parsers give the values of the COES row
C7_CoesRowReturned ==
    /\ etl_pc = "returned"
    /\ Returned
    /\ worksheets = <<ResidualSheet>>
    /\ SubSeq(etl_results[1].coes, 1, 3) = <<50 * Scale, 60 * Scale, 70 * Scale>>
    /\ SubSeq(results[1].energy.coes, 1, 3) = <<50 * Scale, 60 * Scale, 70 * Scale>>

\* in the table, each of the first j month columns holds a non-zero value in
\* some row, and every later month column is blank in every row
TrailingBlank(values, rows, cols, j) ==
    /\ 1 <= j /\ j < Len(cols)
    /\ \A q \in 1..j : \E r \in rows : parse_number(values[r][cols[q]]) /= 0
    /\ \A q \in (j + 1)..Len(cols) : \A r \in rows : values[r][cols[q]] = Blank
\* the rows are those of the five metrics and of the two section banners,
\* every metric has at most one row, and every month one column at most
OnceEach(values, h, rows, cols) ==
    /\ \A r \in rows :
          LabelAt(values, r) \in {METRIC_LABEL[m] : m \in DOMAIN METRIC_LABEL}
                                    \cup {VENTA_BANNER, COMPRA_BANNER}
    /\ \A m \in DOMAIN METRIC_LABEL : Cardinality(RowsLabelled(values, METRIC_LABEL[m]) \cap rows) <= 1
    /\ \A p, q \in 1..Len(cols) : p /= q => MonthOf(values, h, cols[p]) /= MonthOf(values, h, cols[q])
\* what the row of the label holds in the column of the month, when the
\* column is one of the first j; 0 otherwise and when there is no such row
EntryOf(values, h, rows, cols, j, label, month) ==
    IF /\ \E q \in 1..j : MonthOf(values, h, cols[q]) = month
       /\ RowsLabelled(values, label) \cap rows /= {}
      THEN parse_number(values[First(RowsLabelled(values, label) \cap rows)]
                              [cols[First({q \in 1..j : MonthOf(values, h, cols[q]) = month})]])
      ELSE 0
LeadingMonths(values, h, cols, j) ==
    SelectSeq(MONTH_ORDER, LAMBDA month : \E q \in 1..j : MonthOf(values, h, cols[q]) = month)
TrimmedTo(observed_months, series, values, h, rows, cols, j) ==
    /\ observed_months = LeadingMonths(values, h, cols, j)
    /\ \A m \in DOMAIN METRIC_LABEL : \A x \in 1..12 :
          series[m][x] = EntryOf(values, h, rows, cols, j, METRIC_LABEL[m], MONTH_ORDER[x])
TrimmedTable(observed_months, series, values, h, rows, cols) ==
    OnceEach(values, h, rows, cols)
        => \A j \in 1..Len(cols) :
              TrailingBlank(values, rows, cols, j)
                  => TrimmedTo(observed_months, series, values, h, rows, cols, j)
TrimmedIn(observed_months, series, values, h) ==
    h /= 0 => TrimmedTable(observed_months, series, values, h, TableRowsOf(values, h),
                           MonthColumnsOf(values, h))
\* the rows parse_balance_workbook reads under header row h: every row below
\* it that holds a cell
RowsBelow(values, h) ==
    {r \in (h + 1)..Len(values) : \E c \in 1..Len(values[r]) : values[r][c] /= Blank}
\* the five series of a result of parse_balance_workbook
LegacySeries(result) ==
    [regulados |-> result.regulados, libres |-> result.libres, coes |-> result.coes,
     servicios_aux |-> result.servicios_aux, perdidas |-> result.perdidas]
\* C8: when the first month columns of a table hold data and the last ones
\* are blank in every row, observed_months is the months of the first columns,
\* each metric holds at those months the values of its row and 0 everywhere
\* else; with or without section banner, and for both parsers.
C8_TrailingBlankTrimmed ==
    /\ Returned => \A n \in 1..Len(results) :
          TrimmedIn(results[n].observed_months, results[n].energy, SourceOf(results[n]),
                    EnergyHeaderOf(results[n]))
    /\ (etl_pc = "returned" /\ Len(worksheets) = 1)
          => (HeaderAt(worksheets[1].values) /= 0
                => TrimmedTable(etl_results[1].observed_months, LegacySeries(etl_results[1]),
                                worksheets[1].values, HeaderAt(worksheets[1].values),
                                RowsBelow(worksheets[1].values, HeaderAt(worksheets[1].values)),
                                MonthColumnsOf(worksheets[1].values,
                                               HeaderAt(worksheets[1].values))))
\* the sample workbook: Mar is blank in the sheet of 2025
C8_SampleTrimmed ==
    /\ Returned
    /\ worksheets = SampleWorkbook
    /\ results[2].year = 2025
    /\ results[2].observed_months = <<"Ene", "Feb">>
    /\ SubSeq(results[2].energy.regulados, 1, 3) = <<1000 * Scale, 1100 * Scale, 0>>
    /\ SubSeq(results[2].energy.coes, 1, 3) = <<200 * Scale, 250 * Scale, 0>>

\* C9 (as the specification states it): of two sheet titles, the one with
\* the higher marker, R2 over R1 over V1 over REV or REVn over none, has the
\* strictly higher score.
C9_MarkersStrictlyOrdered ==
    Selected => \A a, b \in 1..Len(worksheets) :
        MarkerRank(worksheets[a].title) > MarkerRank(worksheets[b].title)
            => score_version(worksheets[a].title).priority
                 > score_version(worksheets[b].title).priority
\* a title marked REV1 scored as V1
C9_Rev1ScoredAsV1 ==
    /\ Selected
    /\ \E y \in DOMAIN selected :
          selected[y].sheet_name = "2018 REV1" /\ selected[y].version_priority = 2000

FloatText(s) ==
    Separators(NumberChars(ReplaceChars(ReplaceChars(Strip(s), {NBSP}, "", 1), {" "}, "", 1), 1))
\* the cell holds a text, neither blank nor a dash, that float() refuses
Unparseable(cell) ==
    /\ cell.t = "str"
    /\ Strip(cell.s) \notin {"", "-"}
    /\ ~FloatBodyOk(FloatBody(FloatText(cell.s)))
\* no row of the table has a label that names the metric
RowMissing(values, rows, m) ==
    \A r \in rows : ~match_row(TARGET_ROWS_ENERGY[m], normalize_label(values[r][1]))
Warned(result, text) == \E j \in 1..Len(result.warnings) : result.warnings[j] = text
RowWarned(result, m) == Warned(result, MetricWarning(m))
\* a warning that reports neither a missing row nor a missing month
ParseWarned(result) ==
    \E j \in 1..Len(result.warnings) :
        /\ ~StartsWith(result.warnings[j], "No se encontró fila para '")
        /\ ~StartsWith(result.warnings[j], "Mes '")
MissingRowsWarned(result, values, rows) ==
    \A m \in DOMAIN METRIC_LABEL :
        RowMissing(values, rows, m) => AllZero(result.energy[m]) /\ RowWarned(result, m)
MissingMonthsWarned(result, values, h) ==
    \A x \in 1..12 :
        (\A c \in 1..Len(values[h]) : MonthOf(values, h, c) /= MONTH_ORDER[x])
            => /\ \A m \in DOMAIN result.energy : result.energy[m][x] = 0
               /\ Warned(result, MonthWarning(MONTH_ORDER[x]))
UnparseableCells(values, h, rows) ==
    {rc \in rows \X (1..Len(values[h])) :
        MonthOf(values, h, rc[2]) \in MonthNames /\ Unparseable(values[rc[1]][rc[2]])}
UnparseableWarned(result, values, h, rows) ==
    \A rc \in UnparseableCells(values, h, rows) :
        parse_number(values[rc[1]][rc[2]]) = 0 /\ ParseWarned(result)
EventsWarned(result, values, h) ==
    h /= 0 => /\ MissingRowsWarned(result, values, TableRowsOf(values, h))
              /\ MissingMonthsWarned(result, values, h)
              /\ UnparseableWarned(result, values, h, TableRowsOf(values, h))
\* C11 (as the specification states it): in every result transform returns,
\* a metric without row is all zeros and has its warning, a month without
\* column is zero in every series and has its warning, and a cell whose text
\* is no number counts as 0 and has a warning of its own in the result.
C11_EveryEventWarned ==
    Returned => \A n \in 1..Len(results) :
        EventsWarned(results[n], SourceOf(results[n]), EnergyHeaderOf(results[n]))
\* a result read from a table with a cell that is no number: its warnings
\* are those of the missing rows and months only
C11_UnparseableUnwarned ==
    /\ Returned
    /\ Len(worksheets) = 1
    /\ HeaderAt(worksheets[1].values) /= 0
    /\ UnparseableCells(worksheets[1].values, HeaderAt(worksheets[1].values),
                        TableRowsOf(worksheets[1].values, HeaderAt(worksheets[1].values))) /= {}
    /\ ~ParseWarned(results[1])
    /\ Len(results[1].warnings) > 0
\* the two halves of C11 that hold: rows and months
C11_RowsAndMonthsWarned ==
    Returned => \A n \in 1..Len(results) :
        EnergyHeaderOf(results[n]) /= 0 =>
            /\ MissingRowsWarned(results[n], SourceOf(results[n]),
                                 TableRowsOf(SourceOf(results[n]), EnergyHeaderOf(results[n])))
            /\ MissingMonthsWarned(results[n], SourceOf(results[n]), EnergyHeaderOf(results[n]))

(***************************************************************************)
(* A caller that keeps the ParseResults, changes a list of one of them and  *)
(* runs transform on the same workbook again                                *)
(***************************************************************************)
MaxRuns == 2
\* the list attributes of a ParseResult a caller can reach
ListFields == {"months", "observed_months", "warnings"}
\* lines 355-356: months is the list MONTH_ORDER itself, and so is
\* observed_months when the list of the observed months is empty
IsConfigList(result, field) ==
    \/ field = "months"
    \/ field = "observed_months" /\ result.observed_months = <<>>
\* list.pop()
Popped(list) == SubSeq(list, 1, Len(list) - 1)
\* the results after config.MONTH_ORDER lost its last member: every
\* attribute that is that list shows it
ConfigPopped(list) ==
    AsList([n \in 1..Len(list) |-> [list[n] EXCEPT !.months = Popped(month_order)]])
\* the caller receives the list transform returned
ReceiveResults ==
    /\ pc = "returned"
    /\ run < MaxRuns
    /\ pc' = "held"
    /\ first' = IF run = 1 THEN results ELSE first
    /\ UNCHANGED <<worksheets, i, selected, order, k, results, error, etl_pc, etl_results,
                   month_order, run, watcher_vars, retry_vars, number_vars,
                   ingest_vars, broker_vars>>
\* result.<field>.pop() on a result the caller holds
PopList(n, field) ==
    /\ results[n][field] /= <<>>
    /\ IF IsConfigList(results[n], field)
         THEN /\ month_order' = Popped(month_order)
              /\ results' = ConfigPopped(results)
         ELSE /\ results' = [results EXCEPT ![n][field] = Popped(@)]
              /\ UNCHANGED month_order
MutateList ==
    /\ pc = "held"
    /\ \E n \in 1..Len(results), field \in ListFields : PopList(n, field)
    /\ pc' = "mutated"
    /\ UNCHANGED <<worksheets, i, selected, order, k, error, etl_pc, etl_results, run, first,
                   watcher_vars, retry_vars, number_vars,
                   ingest_vars, broker_vars>>
\* BalanceTransformer(workbook).transform() once more, on the same workbook
TransformAgain ==
    /\ pc \in {"held", "mutated"}
    /\ run' = run + 1
    /\ pc' = "selecting"
    /\ i' = 1
    /\ selected' = <<>>
    /\ order' = <<>>
    /\ k' = 1
    /\ results' = <<>>
    /\ error' = ""
    /\ UNCHANGED <<worksheets, etl_pc, etl_results, month_order, first,
                   watcher_vars, retry_vars, number_vars,
                   ingest_vars, broker_vars>>

CallerNext ==
    \/ SkipSheet
    \/ SelectSheet
    \/ DiscardSheet
    \/ CandidatesSelected
    \/ ParseSheet
    \/ ReturnResults
    \/ RaiseNoResults
    \/ ReceiveResults
    \/ MutateList
    \/ TransformAgain

CallerSpec == Init /\ [][CallerNext]_vars

\* C12 (as the specification states it): whatever the caller did with the
\* results of an earlier invocation, transform returns for the same workbook
\* what the first invocation returned.
C12_SameWhateverCameBefore ==
    (run > 1 /\ pc = "returned") => results = first
\* the second invocation returns eleven months where the first returned
\* twelve: the caller had popped the months of a result of the first
C12_MonthsLostToCaller ==
    /\ run = 2
    /\ pc = "returned"
    /\ Len(first[1].months) = 12
    /\ Len(results[1].months) = 11
    /\ Len(results[1].energy.coes) = 11
\* what holds: with config.MONTH_ORDER as it was, the second invocation
\* returns what the first returned
C12_SameWithMonthsIntact ==
    (run > 1 /\ pc = "returned" /\ month_order = MONTH_ORDER) => results = first

(***************************************************************************)
(* The folder watcher: ExcelEventHandler of app/etl                         *)
(*                                                                          *)
(* Time is counted in ticks.  A timer is a record of the path it was made   *)
(* for, its state and the ticks left before it fires; the observer thread   *)
(* runs _schedule, every timer that fires runs _run_etl on a thread of its  *)
(* own, and the threads interleave between the statements of the source.    *)
(***************************************************************************)
RECURSIVE LowerFrom(_, _)
LowerFrom(s, j) == IF j > Len(s) THEN "" ELSE LowerChar(Char(s, j)) \o LowerFrom(s, j + 1)
\* s.lower()
ToLower(s) == LowerFrom(s, 1)

\* WATCH_DEBOUNCE_SECONDS, in ticks
DebounceTicks == 2
\* the events one behaviour delivers
MaxEvents == 4
\* the file names events are delivered for
WatchPaths == {"a.xlsx", "B.XLSM", "~$a.xlsx", "a.csv"}

\* Path(name).suffix: from the last dot on, unless the name has none or starts with it
Suffix(name) ==
    IF Count(name, ".") = 0 \/ RFind(name, ".") = 1 THEN ""
    ELSE SubSeq(name, RFind(name, "."), Len(name))
\* the paths _schedule returns on without a timer
Ignored(path) ==
    StartsWith(path, "~$") \/ ToLower(Suffix(path)) \notin {".xlsx", ".xlsm"}

Timer(path) == [path |-> path, state |-> "waiting", left |-> DebounceTicks]
\* a run that has parsed nothing yet, and one that parsed the version given
NoJob == [read |-> 0, saved |-> FALSE]
JobOf(version) == [read |-> version, saved |-> FALSE]
\* Timer.cancel(): a timer that has fired or was cancelled stays as it is
Cancelled(t) == IF t.state = "waiting" THEN [t EXCEPT !.state = "cancelled"] ELSE t
\* a timer that reached its interval and has not run its function yet
Due(t) == t.state = "waiting" /\ t.left = 0

WatcherInit ==
    /\ TransformOff
    /\ RetryOff
    /\ NumberOff
    /\ IngestOff
    /\ BrokerOff
    /\ timers = <<>>
    /\ timer = <<>>
    /\ observer = [at |-> "idle"]
    /\ since = [p \in WatchPaths |-> DebounceTicks]
    /\ burst_runs = [p \in WatchPaths |-> 0]
    /\ early = [p \in WatchPaths |-> FALSE]
    /\ lost = FALSE
    /\ events = 0
    /\ content = [p \in WatchPaths |-> 0]
    /\ job = <<>>
    /\ persisted = [p \in WatchPaths |-> 0]

watcher_rest == <<transform_vars, caller_vars, retry_vars, number_vars, ingest_vars, broker_vars>>

\* an event on a file reaches _schedule: one that comes less than the debounce
\* after the path's last event continues its burst, another begins one
Burst(path) ==
    /\ since' = [since EXCEPT ![path] = 0]
    /\ burst_runs' = [burst_runs EXCEPT ![path] = IF since[path] >= DebounceTicks THEN 0 ELSE @]
\* the event tells of a change of the file: its content is a new version
Changed(path) == content' = [content EXCEPT ![path] = @ + 1]

\* _schedule up to the test "path in self._timers"
Schedule(path) ==
    observer' = IF Ignored(path) THEN [at |-> "idle"]
                ELSE IF path \in DOMAIN timers THEN [at |-> "cancel", path |-> path]
                ELSE [at |-> "start", path |-> path]

\* on_created and on_modified; an event finds the timers that are due fired
Handle(path, is_directory) ==
    /\ observer.at = "idle"
    /\ events < MaxEvents
    /\ \A n \in 1..Len(timer) : ~Due(timer[n])
    /\ events' = events + 1
    /\ IF is_directory
       THEN UNCHANGED <<observer, since, burst_runs, content>>
       ELSE Schedule(path) /\ Burst(path) /\ Changed(path)
    /\ UNCHANGED <<timers, timer, early, lost, job, persisted, watcher_rest>>

on_created == \E path \in WatchPaths, is_directory \in BOOLEAN : Handle(path, is_directory)

on_modified == \E path \in WatchPaths, is_directory \in BOOLEAN : Handle(path, is_directory)

\* self._timers[path].cancel(): the path is looked up a second time, and the
\* lookup raises KeyError when a run that ended in between removed the entry
CancelTimer ==
    /\ observer.at = "cancel"
    /\ IF observer.path \in DOMAIN timers
       THEN /\ timer' = [timer EXCEPT ![timers[observer.path]] = Cancelled(@)]
            /\ observer' = [observer EXCEPT !.at = "start"]
            /\ lost' = lost
       ELSE /\ timer' = timer
            /\ observer' = [at |-> "idle"]
            /\ lost' = TRUE
    /\ UNCHANGED <<timers, since, burst_runs, early, events, content, job, persisted, watcher_rest>>

\* timer = threading.Timer(...); self._timers[path] = timer; timer.start()
StartTimer ==
    /\ observer.at = "start"
    /\ timer' = Append(timer, Timer(observer.path))
    /\ timers' = [p \in DOMAIN timers \cup {observer.path} |->
                    IF p = observer.path THEN Len(timer) + 1 ELSE timers[p]]
    /\ job' = Append(job, NoJob)
    /\ observer' = [at |-> "idle"]
    /\ UNCHANGED <<since, burst_runs, early, lost, events, content, persisted, watcher_rest>>

\* one tick passes: no timer is kept beyond its interval, and the observer is
\* not held inside _schedule
Tick ==
    /\ observer.at = "idle"
    /\ \A n \in 1..Len(timer) : ~Due(timer[n])
    /\ \/ \E n \in 1..Len(timer) : timer[n].state = "waiting"
       \/ \E p \in WatchPaths : since[p] < DebounceTicks
    /\ timer' = [n \in 1..Len(timer) |->
                    IF timer[n].state = "waiting" THEN [timer[n] EXCEPT !.left = @ - 1]
                    ELSE timer[n]]
    /\ since' = [p \in WatchPaths |->
                    IF since[p] < DebounceTicks THEN since[p] + 1 ELSE since[p]]
    /\ UNCHANGED <<timers, observer, burst_runs, early, lost, events, content, job, persisted,
                   watcher_rest>>

\* a timer reaches its interval and calls _run_etl, which starts the ETL run
TimerFires(n) ==
    /\ Due(timer[n])
    /\ timer' = [timer EXCEPT ![n].state = "running"]
    /\ burst_runs' = [burst_runs EXCEPT ![timer[n].path] = @ + 1]
    /\ early' = [early EXCEPT ![timer[n].path] = @ \/ since[timer[n].path] < DebounceTicks]
    /\ UNCHANGED <<timers, observer, since, lost, events, content, job, persisted, watcher_rest>>

\* process_balance_file returns or raises: finally self._timers.pop(path, None)
RunEtlEnds(n) ==
    /\ timer[n].state = "running"
    /\ timer' = [timer EXCEPT ![n].state = "done"]
    /\ timers' = [p \in DOMAIN timers \ {timer[n].path} |-> timers[p]]
    /\ UNCHANGED <<observer, since, burst_runs, early, lost, events, content, job, persisted,
                   watcher_rest>>

\* parse_with_retries returns the results of the file as it is now
RunParses(n) ==
    /\ timer[n].state = "running"
    /\ job[n] = NoJob
    /\ job' = [job EXCEPT ![n] = JobOf(content[timer[n].path])]
    /\ UNCHANGED <<timers, timer, observer, since, burst_runs, early, lost, events, content,
                   persisted, watcher_rest>>
\* save_balance_rows commits the rows of the results
RunSaves(n) ==
    /\ timer[n].state = "running"
    /\ job[n].read /= 0
    /\ ~job[n].saved
    /\ job' = [job EXCEPT ![n].saved = TRUE]
    /\ persisted' = [persisted EXCEPT ![timer[n].path] = job[n].read]
    /\ UNCHANGED <<timers, timer, observer, since, burst_runs, early, lost, events, content,
                   watcher_rest>>
\* process_balance_file, between its start and its end
process_balance_file ==
    \/ \E n \in 1..Len(timer) : RunParses(n)
    \/ \E n \in 1..Len(timer) : RunSaves(n)

_run_etl ==
    \/ \E n \in 1..Len(timer) : TimerFires(n)
    \/ process_balance_file
    \/ \E n \in 1..Len(timer) : RunEtlEnds(n)

_schedule ==
    \/ CancelTimer
    \/ StartTimer

WatcherNext ==
    \/ on_created
    \/ on_modified
    \/ _schedule
    \/ _run_etl
    \/ Tick

WatcherSpec == WatcherInit /\ [][WatcherNext]_vars

\* the runs of a path that are executing
Running(path) == {n \in 1..Len(timer) : timer[n].path = path /\ timer[n].state = "running"}
\* the timers of a path that will still fire
Waiting(path) == {n \in 1..Len(timer) : timer[n].path = path /\ timer[n].state = "waiting"}

\* C13: in a burst of events on one .xlsx or .xlsm path (consecutive events
\* less than the debounce apart) no ETL run starts before the debounce has
\* passed since the last event, one run at most starts for the burst, also
\* when an earlier run for the path ends during the burst, no event is left
\* without timer, events on other paths cancel nothing, and no timer is made
\* for a name starting with "~$" or with another suffix
C13_OneRunPerBurst ==
    /\ \A p \in DOMAIN burst_runs : burst_runs[p] <= 1 /\ ~early[p]
    /\ ~lost
    /\ \A p \in DOMAIN since :
          (observer.at = "idle" /\ ~Ignored(p) /\ since[p] < DebounceTicks)
              => Cardinality(Waiting(p)) = 1
    /\ \A n \in 1..Len(timer) : ~Ignored(timer[n].path)

\* two runs were started for one burst on a.xlsx, the first of them less than
\* the debounce after the burst's last event
C13_TwoRunsForOneBurst ==
    /\ burst_runs["a.xlsx"] = 2
    /\ early["a.xlsx"]

\* what holds of the watcher: ignored names get no timer, an event on one
\* path leaves the timers of the other paths waiting, and while no run of a
\* path has ended a burst on it has started none and has one timer waiting
C13_FilterAndOtherPaths ==
    /\ \A n \in 1..Len(timer) : ~Ignored(timer[n].path)
    /\ \A p \in DOMAIN since :
          (/\ observer.at = "idle" /\ ~Ignored(p) /\ since[p] < DebounceTicks
           /\ \A n \in 1..Len(timer) : timer[n].path = p => timer[n].state /= "done")
              => Cardinality(Waiting(p)) = 1 /\ ~early[p] /\ burst_runs[p] = 0

(***************************************************************************)
(* parse_with_retries of app/etl                                            *)
(*                                                                          *)
(* What one call of parse_balance_workbook gives depends on the file at     *)
(* that moment (locked, half written, complete): each attempt either        *)
(* returns the results or raises one of the exceptions below.               *)
(***************************************************************************)
\* the values of XLSX_RETRY_COUNT the environment sets: 0 up to this
MaxRetryCount == 3
\* what parse_balance_workbook raises
ParseErrors == {"PermissionError", "BadZipFile", "ValueError"}

Returns(n) == [ok |-> TRUE, attempt |-> n]
Raises(exc, n) == [ok |-> FALSE, exc |-> exc, attempt |-> n]

\* range(1, XLSX_RETRY_COUNT + 1) has a next value
InRange(done, count) == done < count
\* the loop without its break
NoBreak(n, count) == FALSE
\* if attempt >= XLSX_RETRY_COUNT: break
LastAttempt(n, count) == n >= count
\* last_exc or RuntimeError("Fallo al parsear Excel.")
Raised(exc) == IF exc /= "" THEN exc ELSE "RuntimeError"

RetryInit ==
    /\ TransformOff
    /\ WatcherOff
    /\ NumberOff
    /\ IngestOff
    /\ BrokerOff
    /\ retry_count \in 0..MaxRetryCount
    /\ retry_pc = "for"
    /\ attempt = 0
    /\ last_exc = ""
    /\ outcomes = <<>>
    /\ sleeps = <<>>
    /\ retry_result = ""

retry_rest ==
    <<transform_vars, caller_vars, watcher_vars, number_vars, ingest_vars, broker_vars, retry_count>>

\* for attempt in range(1, XLSX_RETRY_COUNT + 1)
ForAttempt ==
    /\ retry_pc = "for"
    /\ IF InRange(attempt, retry_count)
       THEN attempt' = attempt + 1 /\ retry_pc' = "try"
       ELSE attempt' = attempt /\ retry_pc' = "raise"
    /\ UNCHANGED <<last_exc, outcomes, sleeps, retry_result, retry_rest>>

\* return parse_balance_workbook(path, source_id)
ParseReturns ==
    /\ retry_pc = "try"
    /\ outcomes' = Append(outcomes, Returns(attempt))
    /\ retry_result' = Returns(attempt)
    /\ retry_pc' = "returned"
    /\ UNCHANGED <<attempt, last_exc, sleeps, retry_rest>>

\* except Exception as exc: last_exc = exc; break after the last attempt
ParseRaises(exc) ==
    /\ retry_pc = "try"
    /\ outcomes' = Append(outcomes, Raises(exc, attempt))
    /\ last_exc' = exc
    /\ retry_pc' = IF LastAttempt(attempt, retry_count) THEN "raise" ELSE "sleep"
    /\ UNCHANGED <<attempt, sleeps, retry_result, retry_rest>>

\* time.sleep(XLSX_RETRY_DELAY)
Sleep ==
    /\ retry_pc = "sleep"
    /\ sleeps' = Append(sleeps, attempt)
    /\ retry_pc' = "for"
    /\ UNCHANGED <<attempt, last_exc, outcomes, retry_result, retry_rest>>

\* raise last_exc or RuntimeError(...)
RaiseLast ==
    /\ retry_pc = "raise"
    /\ retry_result' = Raised(last_exc)
    /\ retry_pc' = "raised"
    /\ UNCHANGED <<attempt, last_exc, outcomes, sleeps, retry_rest>>

parse_with_retries ==
    \/ ForAttempt
    \/ ParseReturns
    \/ \E exc \in ParseErrors : ParseRaises(exc)
    \/ Sleep
    \/ RaiseLast

RetryNext == parse_with_retries

\* the call runs on one thread: a statement that can be executed is executed,
\* parse_balance_workbook and time.sleep come back
RetrySpec == RetryInit /\ [][RetryNext]_vars /\ WF_vars(RetryNext)

RetryEnded == retry_pc \in {"returned", "raised"}

\* the attempts made are 1, 2, ... in order and every one before the last raised
AttemptsInOrder ==
    /\ \A n \in 1..Len(outcomes) : outcomes[n].attempt = n
    /\ \A n \in 1..(Len(outcomes) - 1) : ~outcomes[n].ok
\* a sleep followed every failed attempt that another attempt followed, and no other
SleepsBetween ==
    /\ Len(sleeps) <= Len(outcomes)
    /\ \A n \in 1..Len(sleeps) : sleeps[n] = n /\ n < retry_count
    /\ RetryEnded => Len(sleeps) = Len(outcomes) - 1 \/ outcomes = <<>>
\* at the end: the first success was returned, or every one of the
\* XLSX_RETRY_COUNT attempts raised and the last one's exception was raised
EndsRight ==
    /\ retry_pc = "returned" =>
          /\ outcomes /= <<>> /\ outcomes[Len(outcomes)].ok
          /\ retry_result = outcomes[Len(outcomes)]
    /\ retry_pc = "raised" =>
          /\ Len(outcomes) = retry_count
          /\ \A n \in 1..Len(outcomes) : ~outcomes[n].ok
          /\ retry_count > 0 => retry_result = outcomes[Len(outcomes)].exc

\* C14: parse_with_retries ends, after XLSX_RETRY_COUNT attempts at most; it
\* returns what the first attempt that succeeds returned and attempts no
\* more, sleeps between two attempts only, never after the last, and after
\* XLSX_RETRY_COUNT failures in a row raises the last attempt's exception
C14_BoundedRetries ==
    /\ [](/\ Len(outcomes) <= retry_count
          /\ AttemptsInOrder
          /\ SleepsBetween
          /\ EndsRight)
    /\ <>RetryEnded

\* three attempts were allowed, two raised and were slept on, the third
\* raised another exception, which is the one raised to the caller
C14_ThirdFailureRaised ==
    /\ retry_pc = "raised"
    /\ retry_count = 3
    /\ Len(outcomes) = 3
    /\ sleeps = <<1, 2>>
    /\ outcomes[2].exc = "PermissionError"
    /\ retry_result = "BadZipFile"

(***************************************************************************)
(* parse_number called on its own, on every short text over the characters  *)
(* below, on the blank cell and on numbers                                  *)
(***************************************************************************)
MaxTextLen == 4
NumberAlphabet == {"0", "1", "2", ",", ".", "-", " "}
RECURSIVE Texts(_)
\* the texts of at most n characters
Texts(n) ==
    IF n = 0 THEN {""}
    ELSE Texts(n - 1) \cup {t \o c : t \in Texts(n - 1), c \in NumberAlphabet}
NumberInputs ==
    {Blank} \cup {Num(n) : n \in {0, 150, -275}} \cup {Str(t) : t \in Texts(MaxTextLen)}

NumberInit ==
    /\ TransformOff
    /\ WatcherOff
    /\ RetryOff
    /\ IngestOff
    /\ BrokerOff
    /\ cell_raw \in NumberInputs
    /\ cell_parsed = [done |-> FALSE]

\* one call of parse_number, lines 114-137
ParseNumber ==
    /\ ~cell_parsed.done
    /\ cell_parsed' = [done |-> TRUE, value |-> parse_number(cell_raw)]
    /\ UNCHANGED <<cell_raw, transform_vars, caller_vars, watcher_vars, retry_vars,
                   ingest_vars, broker_vars>>

NumberNext == ParseNumber

NumberSpec == NumberInit /\ [][NumberNext]_vars

(***************************************************************************)
(* The rule for separators as the specification words it, computed on the   *)
(* positions of a text of digits, commas, dots and minus signs              *)
(***************************************************************************)
RECURSIVE Unspaced(_)
\* the text without its spaces
Unspaced(t) ==
    IF t = "" THEN ""
    ELSE Unspaced(SubSeq(t, 1, Len(t) - 1))
         \o (IF Char(t, Len(t)) = " " THEN "" ELSE Char(t, Len(t)))
Positions(t, c) == {p \in 1..Len(t) : Char(t, p) = c}
Least(set) == CHOOSE p \in set : \A q \in set : p <= q
Greatest(set) == CHOOSE p \in set : \A q \in set : q <= p
Commas(t) == Positions(t, ",")
Dots(t) == Positions(t, ".")
OneEach(t) == Cardinality(Commas(t)) = 1 /\ Cardinality(Dots(t)) = 1
\* where the decimal point is, 0 for nowhere
RulePoint(t) ==
    IF Cardinality(Commas(t)) = 1 /\ Dots(t) = {} THEN Least(Commas(t))
    ELSE IF OneEach(t) THEN Greatest(Commas(t) \cup Dots(t))
    ELSE IF Cardinality(Dots(t)) = 1 /\ Commas(t) = {} THEN Least(Dots(t))
    ELSE 0
\* the separators the rule removes
RuleRemoved(t) ==
    IF Cardinality(Dots(t)) > 1 /\ Commas(t) = {} THEN Dots(t)
    ELSE IF OneEach(t) THEN {Least(Commas(t) \cup Dots(t))}
    ELSE {}
RuleLeft(t) == (1..Len(t)) \ RuleRemoved(t)
\* the position of the sign, the first character left, if it is a minus
RuleSign(t) ==
    IF RuleLeft(t) /= {} /\ Char(t, Least(RuleLeft(t))) = "-" THEN {Least(RuleLeft(t))} ELSE {}
RuleDigits(t) == {p \in 1..Len(t) : IsDigit(Char(t, p))}
\* what is left is a number: digits, with a sign before and one point at most
RuleNumeral(t) ==
    /\ RuleDigits(t) /= {}
    /\ RuleLeft(t) \ (RuleSign(t) \cup {RulePoint(t)}) \subseteq RuleDigits(t)
RECURSIVE Pow10(_)
Pow10(n) == IF n = 0 THEN 1 ELSE 10 * Pow10(n - 1)
RECURSIVE SumOver(_, _, _)
\* the sum of the digits at the positions of set, each with its weight
SumOver(t, set, point) ==
    IF set = {} THEN 0
    ELSE LET p == Least(set)
         IN  DigitVal(Char(t, p))
               * Pow10(Cardinality({q \in RuleDigits(t) : p < q /\ q < point}))
             + SumOver(t, set \ {p}, point)
RuleWhole(t, point) == SumOver(t, {p \in RuleDigits(t) : p < point}, point)
\* the first two decimals
RuleDecimals(t, point) ==
    SumOver(t, {p \in RuleDigits(t) :
                   p > point /\ Cardinality({q \in RuleDigits(t) : point < q /\ q <= p}) <= 2},
            point + 3)
RuleAbs(t, point) ==
    RuleWhole(t, point) * Scale
    + (IF Cardinality({q \in RuleDigits(t) : q > point}) = 1
       THEN 10 * RuleDecimals(t, point) ELSE RuleDecimals(t, point))
\* the number the rule gives the text, 0 when what is left is no number
RuleValue(text) ==
    LET t == Unspaced(text)
        point == IF RulePoint(t) = 0 THEN Len(t) + 1 ELSE RulePoint(t)
    IN  IF ~RuleNumeral(t) THEN 0
        ELSE IF RuleSign(t) /= {} THEN -RuleAbs(t, point)
        ELSE RuleAbs(t, point)

\* C15: parse_number returns a number for every value; for a text of digits,
\* commas, dots and minus signs it is the number the separator rule gives
\* (one comma and no dot: the comma is the decimal point; several dots and no
\* comma: the dots are removed; one dot and one comma: the later is the
\* decimal separator and the earlier is removed), 0.0 for a text that is no
\* number after these steps, 0.0 for None, a blank text and "-", and a number
\* passes through
C15_ParseNumberFollowsRule ==
    cell_parsed.done =>
        /\ cell_parsed.value \in Int
        /\ cell_raw.t = "none" => cell_parsed.value = 0
        /\ cell_raw.t = "num" => cell_parsed.value = cell_raw.n
        /\ cell_raw.t = "str" => cell_parsed.value = RuleValue(cell_raw.s)
        /\ (cell_raw.t = "str" /\ Unspaced(cell_raw.s) \in {"", "-"}) => cell_parsed.value = 0

\* ",1.2" was parsed: the comma, coming first, was removed and the dot, coming later, taken as
\* the decimal point, which gives 1.2
C15_DotThenComma ==
    /\ cell_parsed.done
    /\ cell_raw = Str(",1.2")
    /\ cell_parsed.value = 120

(***************************************************************************)
(* Properties of the selection among the sheets of one year                 *)
(***************************************************************************)
\* the sheets of year y that _select_candidates has gone through
Processed(y) == {n \in 1..(i - 1) : n <= Len(worksheets) /\ SheetYear(n) = y}
\* the candidate has the priority and the revision number of the incumbent
SameVersion(a, b) ==
    a.version_priority = b.version_priority /\ a.revision_number = b.revision_number
\* the rule of the specification for a candidate against the incumbent
ReplacesIncumbent(candidate, incumbent) ==
    \/ candidate.version_priority > incumbent.version_priority
    \/ /\ candidate.version_priority = incumbent.version_priority
       /\ candidate.revision_number >= incumbent.revision_number
\* the step of _select_candidates on a sheet whose year has an incumbent
\* stores the sheet exactly when the rule says so and else leaves selected alone
ReplacedByRule ==
    (Selecting /\ i' = i + 1 /\ SheetYear(i) \in DOMAIN selected) =>
        /\ selected'[SheetYear(i)] = SheetCandidate(i)
              <=> ReplacesIncumbent(SheetCandidate(i), selected[SheetYear(i)])
        /\ selected'[SheetYear(i)] /= SheetCandidate(i) => selected' = selected
\* the sheet selected for a year has the highest priority of the year's sheets
\* gone through, and is the last of those with its priority and revision number
LastOfTheBest ==
    \A y \in DOMAIN selected :
        /\ selected[y].sheet \in Processed(y)
        /\ \A n \in Processed(y) :
              /\ SheetCandidate(n).version_priority <= selected[y].version_priority
              /\ SameVersion(SheetCandidate(n), selected[y]) => n <= selected[y].sheet

\* C16: a sheet replaces the incumbent of its year exactly when its priority
\* is strictly higher, or equal with a revision number not below the
\* incumbent's; so of the sheets of a year with equal priority and revision
\* number the last in worksheet order is selected, and a sheet of lower
\* priority never displaces the incumbent
C16_ReplacedWhenBetterOrEqual == [][ReplacedByRule]_vars /\ [](pc /= "done" => LastOfTheBest)

\* two sheets of one year had the same priority and revision number, and the
\* one that came later in the workbook is the one selected
C16_LaterOfEqualSelected ==
    /\ pc = "returned"
    /\ \E y \in DOMAIN selected : \E n \in Processed(y) :
          n < selected[y].sheet /\ SameVersion(SheetCandidate(n), selected[y])

\* where the upper-cased title has REV followed by end, by a character that
\* is neither digit nor space, or by one digit and no second
RevPlaces(up) ==
    {p \in 1..(Len(up) - 2) :
        /\ SubSeq(up, p, p + 2) = "REV"
        /\ \/ p + 2 = Len(up)
           \/ ~IsDigit(Char(up, p + 3)) /\ ~IsSpace(Char(up, p + 3))
           \/ IsDigit(Char(up, p + 3)) /\ (p + 3 = Len(up) \/ ~IsDigit(Char(up, p + 4)))}
\* the title is marked REV or REVd
RevMarked(title) == RevPlaces(ToUpper(title)) /= {}
\* the digit d of a title marked REVd, -1 for a bare REV
RevDigitAt(up, p) == IF p + 3 <= Len(up) /\ IsDigit(Char(up, p + 3)) THEN DigitVal(Char(up, p + 3)) ELSE -1
RevDigit(title) == RevDigitAt(ToUpper(title), Least(RevPlaces(ToUpper(title))))
\* sheet a is marked with a higher digit than sheet b
HigherRev(a, b) ==
    /\ RevMarked(worksheets[a].title) /\ RevMarked(worksheets[b].title)
    /\ RevDigit(worksheets[a].title) > RevDigit(worksheets[b].title)

\* C17 (as the specification states it): of two sheet titles marked REVm and
\* REVn with m > n >= 0, or REVm and a bare REV, the first has the strictly
\* higher score, and a year that has both selects the sheet marked REVm
C17_HigherRevDigitWins ==
    Selected => \A a, b \in 1..Len(worksheets) :
        HigherRev(a, b) =>
            /\ score_version(worksheets[a].title).priority
                 > score_version(worksheets[b].title).priority
            /\ \A y \in DOMAIN selected :
                  (SheetYear(a) = y /\ SheetYear(b) = y) => selected[y].sheet /= b
\* the year 2018 has the sheets REV3 and REV1, and REV1 is the one selected
C17_Rev1SelectedOverRev3 ==
    /\ Selected
    /\ \E n \in 1..Len(worksheets) : worksheets[n].title = "2018 REV3"
    /\ selected[2018].sheet_name = "2018 REV1"
    /\ selected[2018].version_priority > score_version("2018 REV3").priority
\* what holds: with no title marked REV1, the higher digit has the higher
\* score and is selected
C17_HigherDigitWinsWithoutRev1 ==
    (Selected /\ \A n \in 1..Len(worksheets) :
          RevMarked(worksheets[n].title) => RevDigit(worksheets[n].title) /= 1)
        => C17_HigherRevDigitWins

(***************************************************************************)
(* Properties of the rows before the first banner and of the Venta section  *)
(***************************************************************************)
\* the rows of the table that switch the section, and those that begin a Venta section
BannerRows(values, rows) == {r \in rows : detect_section(normalize_label(values[r][1])) /= ""}
VentaRows(values, rows) == {r \in rows : detect_section(normalize_label(values[r][1])) = "venta"}
\* row r comes before every banner of the table
BeforeBanners(values, rows, r) == \A b \in BannerRows(values, rows) : r < b
\* the last banner before row r is a Venta banner
InSaleSection(values, rows, r) ==
    \E v \in VentaRows(values, rows) :
        v < r /\ \A b \in BannerRows(values, rows) : ~(v < b /\ b < r)
\* the rows matched for metric m inside the Venta section, and before any banner
SaleRows(values, rows, m) ==
    {r \in RowsLabelled(values, METRIC_LABEL[m]) \cap rows : InSaleSection(values, rows, r)}
FallbackRows(values, rows, m) ==
    {r \in RowsLabelled(values, METRIC_LABEL[m]) \cap rows : BeforeBanners(values, rows, r)}
\* the metric's series is its row of the Venta section if there is one, and
\* the row before the banners only if there is none
SaleBeforeFallback(result, values, h, rows, m) ==
    IF SaleRows(values, rows, m) /= {}
      THEN SeriesFromRow(result.energy[m], values, h, First(SaleRows(values, rows, m)))
    ELSE FallbackRows(values, rows, m) /= {}
      => SeriesFromRow(result.energy[m], values, h, Greatest(FallbackRows(values, rows, m)))
SaleBeforeFallbackIn(result, values, h) ==
    h /= 0 => \A m \in {"regulados", "libres", "coes"} :
                  SaleBeforeFallback(result, values, h, TableRowsOf(values, h), m)

\* C18 (as the specification states it): a regulated, free or COES row seen
\* before any banner is used for its metric only if no row of the Venta
\* section matched the metric; when one did, the metric's series is that
\* row's values, all zeros included
C18_FallbackOnlyWithoutSaleRow ==
    Returned => \A n \in 1..Len(results) :
        SaleBeforeFallbackIn(results[n], SourceOf(results[n]), EnergyHeaderOf(results[n]))

\* the COES row of the Venta section holds an explicit 0 in every month, a
\* COES row before the banner holds numbers, and coes is the latter's values
ZeroSaleRowReplaced(result, values, h, rows) ==
    /\ SaleRows(values, rows, "coes") /= {}
    /\ \A c \in 2..(NumMonthColumns + 1) : values[First(SaleRows(values, rows, "coes"))][c] = Num(0)
    /\ FallbackRows(values, rows, "coes") /= {}
    /\ ~AllZero(result.energy.coes)
    /\ SeriesFromRow(result.energy.coes, values, h, First(FallbackRows(values, rows, "coes")))
C18_FallbackOverZeroSaleRow ==
    /\ Returned
    /\ Len(worksheets) = 1
    /\ HeaderAt(worksheets[1].values) /= 0
    /\ ZeroSaleRowReplaced(results[1], worksheets[1].values, HeaderAt(worksheets[1].values),
                           TableRowsOf(worksheets[1].values, HeaderAt(worksheets[1].values)))

\* what holds: the row of the Venta section is the source whenever it holds
\* a value that is not 0, and the row before the banners when there is no
\* row of the Venta section
C18_NonZeroSaleRowWins ==
    Returned => \A n \in 1..Len(results) :
        \A m \in {"regulados", "libres", "coes"} :
            LET values == SourceOf(results[n])
                h == EnergyHeaderOf(results[n])
                rows == TableRowsOf(values, h)
            IN  (/\ h /= 0
                 /\ SaleRows(values, rows, m) /= {}
                     => \E c \in 1..Len(values[h]) :
                           parse_number(values[First(SaleRows(values, rows, m))][c]) /= 0
                              /\ MonthOf(values, h, c) \in MonthNames)
                    => SaleBeforeFallback(results[n], values, h, rows, m)

(***************************************************************************)
(* Properties of the presence flags and of the active window                *)
(***************************************************************************)
\* the cell is neither blank nor a dash and holds a number or a text that
\* parses as one
ReportedCell(cell) ==
    /\ cell.t /= "none"
    /\ cell.t = "str" => Strip(cell.s) \notin {"", "-"} /\ ~Unparseable(cell)
\* some row of the table reports a value in column c
Reported(values, rows, c) == \E r \in rows : ReportedCell(values[r][c])
\* some row of the table reports a value other than 0 in column c
ReportedNonZero(values, rows, c) ==
    \E r \in rows : ReportedCell(values[r][c]) /\ parse_number(values[r][c]) /= 0
InSeq(x, seq) == \E j \in 1..Len(seq) : seq[j] = x
\* the month columns of header row h
HeaderMonthColumns(values, h) == {c \in 1..Len(values[h]) : MonthOf(values, h, c) \in MonthNames}
\* the observed months are the months of the columns that report a value
PresenceIsReported(result, values, h, rows) ==
    \A c \in HeaderMonthColumns(values, h) :
        InSeq(MonthOf(values, h, c), result.observed_months) <=> Reported(values, rows, c)
PresenceIsNonZero(result, values, h, rows) ==
    \A c \in HeaderMonthColumns(values, h) :
        InSeq(MonthOf(values, h, c), result.observed_months) <=> ReportedNonZero(values, rows, c)
\* the sheet has one table, which has a month with a reported value
OneTable(values) ==
    /\ Cardinality(RowsLabelled(values, "DESCRIPCIÓN")) = 1
    /\ \E c \in HeaderMonthColumns(values, HeaderAt(values)) :
          ReportedNonZero(values, TableRowsOf(values, HeaderAt(values)), c)

\* C19 (as the specification states it): a month column has presence, and
\* its month is observed, exactly when some row of the table holds in it a
\* cell that is neither blank nor a dash and parsed as a number, an explicit
\* 0 included
C19_ZeroCountsAsPresent ==
    Returned => \A n \in 1..Len(results) :
        OneTable(SourceOf(results[n])) =>
            PresenceIsReported(results[n], SourceOf(results[n]), EnergyHeaderOf(results[n]),
                               TableRowsOf(SourceOf(results[n]), EnergyHeaderOf(results[n])))
\* the column of Feb holds an explicit 0 in every row, the others numbers,
\* and Feb is not observed
C19_ZeroMonthNotObserved ==
    /\ Returned
    /\ Len(worksheets) = 1
    /\ OneTable(worksheets[1].values)
    /\ \A r \in TableRowsOf(worksheets[1].values, HeaderAt(worksheets[1].values)) :
          /\ worksheets[1].values[r][3] = Num(0)
          /\ worksheets[1].values[r][2].t = "num" /\ worksheets[1].values[r][2].n /= 0
    /\ MonthOf(worksheets[1].values, HeaderAt(worksheets[1].values), 3) = "Feb"
    /\ results[1].observed_months = <<"Ene", "Mar">>
\* what holds: a month is observed exactly when some row holds in its column
\* a cell, neither blank nor a dash, that parsed as a number other than 0
C19_NonZeroIsPresent ==
    Returned => \A n \in 1..Len(results) :
        OneTable(SourceOf(results[n])) =>
            PresenceIsNonZero(results[n], SourceOf(results[n]), EnergyHeaderOf(results[n]),
                              TableRowsOf(SourceOf(results[n]), EnergyHeaderOf(results[n])))

\* the last month column of header row h that has presence or a value other
\* than 0, in a table that has one
WindowLast(values, h, rows) ==
    Greatest({c \in HeaderMonthColumns(values, h) : ReportedNonZero(values, rows, c)})
\* the months of the active window
WindowMonths(values, h, rows) ==
    {MonthOf(values, h, c) :
        c \in {d \in HeaderMonthColumns(values, h) : d <= WindowLast(values, h, rows)}}
Members(seq) == {seq[j] : j \in 1..Len(seq)}
CanonicalOrder(seq) ==
    \A a, b \in 1..Len(seq) : a < b => MonthIndex(seq[a]) < MonthIndex(seq[b])
EndsWithLastMonth(result) ==
    result.observed_months /= <<>>
    /\ result.last_month = result.observed_months[Len(result.observed_months)]
\* observed_months is the months of the window, in canonical order
ObservedIsWindow(result, values, h, rows) ==
    /\ Members(result.observed_months) = WindowMonths(values, h, rows)
    /\ CanonicalOrder(result.observed_months)
    /\ EndsWithLastMonth(result)
\* observed_months is the months with presence, in canonical order
ObservedIsPresent(result, values, h, rows) ==
    /\ Members(result.observed_months)
         = {MonthOf(values, h, c) :
               c \in {d \in HeaderMonthColumns(values, h) : ReportedNonZero(values, rows, d)}}
    /\ Members(result.observed_months) \subseteq WindowMonths(values, h, rows)
    /\ CanonicalOrder(result.observed_months)
    /\ EndsWithLastMonth(result)

\* C20 (as the specification states it): the active window of the energy
\* table is its month columns up to the last one with presence or a value
\* other than 0; observed_months is the months of the window, those without
\* data included, in canonical order, and last_month is its last element
C20_ObservedIsTheWindow ==
    Returned => \A n \in 1..Len(results) :
        OneTable(SourceOf(results[n])) =>
            ObservedIsWindow(results[n], SourceOf(results[n]), EnergyHeaderOf(results[n]),
                             TableRowsOf(SourceOf(results[n]), EnergyHeaderOf(results[n])))
\* Feb is blank in every row and Mar is not: Feb is inside the window and is
\* not among the observed months
C20_WindowMonthNotObserved ==
    /\ Returned
    /\ Len(worksheets) = 1
    /\ OneTable(worksheets[1].values)
    /\ \A r \in TableRowsOf(worksheets[1].values, HeaderAt(worksheets[1].values)) :
          worksheets[1].values[r][3] = Blank
    /\ "Feb" \in WindowMonths(worksheets[1].values, HeaderAt(worksheets[1].values),
                              TableRowsOf(worksheets[1].values, HeaderAt(worksheets[1].values)))
    /\ ~InSeq("Feb", results[1].observed_months)
    /\ results[1].last_month = "Mar"
\* what holds: observed_months is the months with presence, all of them in
\* the window, in canonical order, and last_month is its last element
C20_ObservedIsThePresentMonths ==
    Returned => \A n \in 1..Len(results) :
        OneTable(SourceOf(results[n])) =>
            ObservedIsPresent(results[n], SourceOf(results[n]), EnergyHeaderOf(results[n]),
                              TableRowsOf(SourceOf(results[n]), EnergyHeaderOf(results[n])))

(***************************************************************************)
(* The tables of a sheet: which header rows a ParseResult is read from      *)
(***************************************************************************)
\* the observed months the table under an energy header gives on its own
ObservedUnder(table) ==
    LET observed == ObservedOf(table.months, table.presence)
    IN  IF observed /= <<>> THEN observed ELSE MONTH_ORDER
\* the energy part of the result is what the table under header row h gives
EnergyReadAt(result, df, h) ==
    LET table == extract_table(df, h, FALSE)
        observed == ObservedUnder(table)
    IN  /\ result.energy = table.series
        /\ result.observed_months = observed
        /\ result.last_month = observed[Len(observed)]
\* the result is read from the first energy header and the first monetary
\* header among rows, and has no sales when none of rows is monetary
ReadFromFirst(result, df, rows) ==
    LET money == MoneyHeaders(df, rows)
        energy == rows \ money
    IN  /\ energy /= {}
        /\ EnergyReadAt(result, df, First(energy))
        /\ IF money = {} THEN result.sales = <<>>
           ELSE result.sales = <<extract_table(df, First(money), TRUE).series>>
\* a later header row of the kind of an earlier one, whose table differs
LaterTableDiffers(df, rows) ==
    \/ \E a, b \in EnergyHeaders(df, rows) :
          a < b /\ extract_table(df, a, FALSE) /= extract_table(df, b, FALSE)
    \/ \E a, b \in MoneyHeaders(df, rows) :
          a < b /\ extract_table(df, a, TRUE).series /= extract_table(df, b, TRUE).series

\* C21 (as the specification states it): the energy series, observed_months
\* and last_month of a result are those of the first header row of the sheet
\* classified as energy, and its sales series those of the first header row
\* of the sheet classified as monetary, whatever header rows follow.
C21_FirstOfEachKindInSheet ==
    Returned => \A n \in 1..Len(results) :
        ReadFromFirst(results[n], SourceOf(results[n]), HeaderRows(SourceOf(results[n])))
\* C21 (amended): among the header rows under the sheet's title row (all the
\* header rows when no header row lies under it), the energy series,
\* observed_months and last_month of a result are those of the first header
\* classified as energy and the sales series those of the first classified
\* as monetary; later header rows of either kind change none of them.
C21_FirstOfEachKindUnderTitle ==
    Returned => \A n \in 1..Len(results) :
        ReadFromFirst(results[n], SourceOf(results[n]),
                      UnderTitle(SourceOf(results[n]), results[n].year))
\* a result of a sheet with a table above its title row and, under it, a
\* third energy table that differs from the first
C21_LaterTablesDropped ==
    /\ Returned
    /\ \E n \in 1..Len(results) :
          /\ UnderTitle(SourceOf(results[n]), results[n].year) /= HeaderRows(SourceOf(results[n]))
          /\ Cardinality(EnergyHeaders(SourceOf(results[n]),
                                       UnderTitle(SourceOf(results[n]), results[n].year))) = 2
          /\ LaterTableDiffers(SourceOf(results[n]),
                               UnderTitle(SourceOf(results[n]), results[n].year))
          /\ results[n].sales /= <<>>

\* the keywords of a monetary table
MoneyKeywords == {"MILLONES", "SOLES", "S/", "MONETARI"}
\* a text cell that holds a keyword once normalized
KeywordCell(cell) ==
    cell.t = "str" /\ LET label == normalize_label(cell)
                      IN  \E keyword \in MoneyKeywords : Contains(label, keyword)
KeywordRow(row) == \E c \in 1..Len(row) : KeywordCell(row[c])
\* the rows immediately above header row h, three at most
RowsAbove(h) == {r \in 1..(h - 1) : r >= h - 3}
\* a keyword stands in one of the rows immediately above header row h
MonetaryByRule(df, h) == \E r \in RowsAbove(h) : KeywordRow(df[r])
\* a keyword stands in a row of the grid that is not among them
KeywordElsewhere(df, h) ==
    /\ h > 4 /\ KeywordRow(df[h - 4])
    /\ h < Len(df) /\ KeywordRow(df[h + 1])

\* C22: the table of a header row is classified as monetary exactly when a
\* text cell of the three rows at most immediately above it holds, once
\* normalized, MILLONES, SOLES, S/ or MONETARI, and as energy otherwise;
\* the rows further above and the rows below play no part, so a result has
\* sales exactly when such a cell stands above one of the headers read.
C22_MonetaryByRowsAbove ==
    Returned => \A n \in 1..Len(results) :
        LET df == SourceOf(results[n])
            headers == HeaderRows(df)
            monetary == {h \in headers : MonetaryByRule(df, h)}
        IN  /\ \A h \in headers : IsSales(df, h) <=> h \in monetary
            /\ results[n].sales /= <<>>
                  <=> HeadersBelow(headers, locate_title_row(df, results[n].year)) \cap monetary /= {}
\* a result without sales of a sheet whose second header has a keyword four
\* rows above it and another in the row below it
C22_KeywordOutOfReach ==
    /\ Returned
    /\ \E n \in 1..Len(results) :
          /\ results[n].sales = <<>>
          /\ \E h \in HeaderRows(SourceOf(results[n])) : KeywordElsewhere(SourceOf(results[n]), h)

\* the description of row r of a grid, normalized
DescAt(df, r) == normalize_label(df[r][1])
\* the description begins with the text of a section banner
BeginsBanner(label) ==
    \E banner \in {"VENTA DE ENER", "VENTA ENER", "COMPRA DE ENER", "COMPRA ENER"} :
        StartsWith(label, banner)
\* the banner rows of the table under header row h
BannersUnder(df, h) == {r \in TableRowsOf(df, h) : BeginsBanner(DescAt(df, r))}
\* the grid with the cells of the rows in rows emptied, their descriptions kept
Emptied(df, rows) ==
    AsList([r \in 1..Len(df) |->
        IF r \in rows THEN AsList([c \in 1..Len(df[r]) |-> IF c = 1 THEN df[r][c] ELSE Blank])
        ELSE df[r]])
\* what _parse_sheet gives for the sheet of a result once the cells of its
\* banner rows are emptied
WithoutBannerCells(result) ==
    parse_sheet(Emptied(SourceOf(result), BannersUnder(SourceOf(result), EnergyHeaderOf(result))),
                result.year, result.sheet_name)
\* the rows of the table that switch the section
Switching(df, h) == {r \in TableRowsOf(df, h) : detect_section(DescAt(df, r)) /= ""}

\* C23 (as the specification states it): the cells of a section banner row
\* give no energy series and change neither the month presence nor the
\* active window nor observed_months, so the result is the one the sheet
\* gives with those cells empty; and the section is switched by the rows
\* whose description begins with the banner text alone.
C23_BannerOnlySwitches ==
    Returned => \A n \in 1..Len(results) :
        /\ results[n] = WithoutBannerCells(results[n])
        /\ \A r \in Switching(SourceOf(results[n]), EnergyHeaderOf(results[n])) :
              BeginsBanner(DescAt(SourceOf(results[n]), r))
\* a month is observed, and ends the result, that has a value in the banner
\* row alone
C23_BannerMonthObserved ==
    /\ Returned
    /\ \E n \in 1..Len(results) :
          /\ results[n].last_month = "Mar"
          /\ WithoutBannerCells(results[n]).last_month = "Feb"
          /\ results[n].energy = WithoutBannerCells(results[n]).energy
\* what holds: the cells of a banner row are the series of no energy metric
C23_BannerCellsInNoSeries ==
    Returned => \A n \in 1..Len(results) :
        results[n].energy = WithoutBannerCells(results[n]).energy

\* the rows of the table under header row h whose description holds the text
RowsHolding(df, h, text) == {r \in TableRowsOf(df, h) : Contains(DescAt(df, r), text)}
\* the series has 0 at the month of every month column of header row h
ZeroSeries(series, df, h) ==
    \A c \in 1..Len(df[h]) :
        MonthOf(df, h, c) \in MonthNames => series[MonthIndex(MonthOf(df, h, c))] = 0
\* the series is that of the first of rows
FromFirstRow(series, df, h, rows) == SeriesFromRow(series, df, h, First(rows))
\* the ancillary services of the table under header row h
AuxByRule(series, df, h) ==
    LET aux == RowsHolding(df, h, "SERVICIOS AUXILIARES")
        own == RowsHolding(df, h, "CONSUMO PROPIO")
    IN  IF aux /= {} THEN FromFirstRow(series, df, h, aux)
        ELSE IF own /= {} THEN FromFirstRow(series, df, h, own)
        ELSE ZeroSeries(series, df, h)
\* the losses of the table under header row h
LossByRule(series, df, h) ==
    LET losses == RowsHolding(df, h, "PERDIDAS")
    IN  IF losses /= {} THEN \E r \in losses : SeriesFromRow(series, df, h, r)
        ELSE ZeroSeries(series, df, h)
\* a row of the table in an open section: a banner stands above it
InSection(df, h, r) == \E b \in TableRowsOf(df, h) : b < r /\ BeginsBanner(DescAt(df, b))

\* C24: the ancillary services of a result are the values of the first row
\* of its energy table whose description holds SERVICIOS AUXILIARES when the
\* table has such a row, in whatever section and before or after a CONSUMO
\* PROPIO row; those of the first row that holds CONSUMO PROPIO when it has
\* none; and the losses are the values of a row that holds PERDIDAS, in
\* whatever section.
C24_AuxiliaryBeforeOwnUse ==
    Returned => \A n \in 1..Len(results) :
        LET df == SourceOf(results[n])
            h == EnergyHeaderOf(results[n])
        IN  /\ AuxByRule(results[n].energy.servicios_aux, df, h)
            /\ LossByRule(results[n].energy.perdidas, df, h)
\* a result whose ancillary services are those of a SERVICIOS AUXILIARES row
\* in the Compra section that follows a CONSUMO PROPIO row with other values
\* in the Venta section, its losses those of a row in the Venta section
C24_AuxiliaryAfterOwnUse ==
    /\ Returned
    /\ \E n \in 1..Len(results) :
          \E a \in RowsHolding(SourceOf(results[n]), EnergyHeaderOf(results[n]), "SERVICIOS AUXILIARES"),
             o \in RowsHolding(SourceOf(results[n]), EnergyHeaderOf(results[n]), "CONSUMO PROPIO"),
             p \in RowsHolding(SourceOf(results[n]), EnergyHeaderOf(results[n]), "PERDIDAS") :
                /\ o < a
                /\ InSection(SourceOf(results[n]), EnergyHeaderOf(results[n]), o)
                /\ InSection(SourceOf(results[n]), EnergyHeaderOf(results[n]), p)
                /\ results[n].energy.servicios_aux[1] /= 0
                /\ ~SeriesFromRow(results[n].energy.servicios_aux, SourceOf(results[n]),
                                  EnergyHeaderOf(results[n]), o)
                /\ results[n].energy.perdidas[1] /= 0

\* the empty rows of a grid under header row h
EmptyUnder(df, h) == {r \in (h + 1)..Len(df) : EmptyRow(df[r])}
\* the grid cut before the first empty row under header row h
CutAtBlank(df, h) ==
    IF EmptyUnder(df, h) = {} THEN df ELSE SubSeq(df, 1, First(EmptyUnder(df, h)) - 1)
\* the table under header row h is the one its rows before the first empty
\* row give: months, presence, series and warnings
TableEndsAtBlank(df, h) ==
    LET is_sales == IsSales(df, h)
    IN  extract_table(df, h, is_sales) = extract_table(CutAtBlank(df, h), h, is_sales)
\* a row under the first empty row that holds the text and a number in
\* month column c
TailRow(df, h, text, c) ==
    \E r \in (h + 1)..Len(df) :
        /\ \E b \in EmptyUnder(df, h) : b < r
        /\ Contains(DescAt(df, r), text)
        /\ df[r][c].t = "num"

\* C25: the table _extract_table gives for a header row is the one given by
\* the rows under it before the first fully blank row; no row at or after
\* the blank row changes its series, month presence, window or warnings,
\* whatever its description, and a result of a sheet with one header row is
\* the result of the sheet cut at the blank row.
C25_TableEndsAtBlankRow ==
    Returned => \A n \in 1..Len(results) :
        LET df == SourceOf(results[n])
            headers == HeaderRows(df)
        IN  /\ \A h \in headers : TableEndsAtBlank(df, h)
            /\ Cardinality(headers) = 1
                  => results[n] = parse_sheet(CutAtBlank(df, First(headers)),
                                              results[n].year, results[n].sheet_name)
\* a result that ends in Ene and has no losses, of a sheet with a PERDIDAS
\* row holding a number in the Mar column under the blank row
C25_AliasRowAfterBlank ==
    /\ Returned
    /\ \E n \in 1..Len(results) :
          /\ TailRow(SourceOf(results[n]), EnergyHeaderOf(results[n]), "PERDIDAS", 4)
          /\ results[n].last_month = "Ene"
          /\ results[n].energy.perdidas[3] = 0
          /\ \E w \in 1..Len(results[n].warnings) :
                results[n].warnings[w] = MetricWarning("perdidas")

(***************************************************************************)
(* The rows the watcher's runs leave in the database                        *)
(***************************************************************************)
\* the events on the path have stopped and nothing is left to run for it
Quiet(path) ==
    /\ observer.at = "idle"
    /\ since[path] >= DebounceTicks
    /\ Waiting(path) = {}
    /\ Running(path) = {}
\* the runs of the path that saved rows read from the version
SavedFrom(path, version) ==
    {n \in 1..Len(timer) : timer[n].path = path /\ job[n].saved /\ job[n].read = version}

\* C26 (as the specification states it): the runs of process_balance_file
\* for one path never overlap, the rows in the database are never those of
\* an older version of the file than a run has already saved, and once the
\* events on a path have stopped and the file's final content was saved by a
\* run, the rows in the database are those read from that content.
C26_FinalContentPersisted ==
    \A p \in DOMAIN content :
        /\ Cardinality(Running(p)) <= 1
        /\ \A n \in 1..Len(timer) :
              (timer[n].path = p /\ job[n].saved) => persisted[p] >= job[n].read
        /\ (Quiet(p) /\ SavedFrom(p, content[p]) /= {}) => persisted[p] = content[p]
\* the events on a.xlsx have stopped, a run saved the rows of its second and
\* final version, and the database holds the rows of its first version,
\* saved later by the run that had read it
C26_OlderRowsSavedLast ==
    /\ Quiet("a.xlsx")
    /\ content["a.xlsx"] = 2
    /\ SavedFrom("a.xlsx", 2) /= {}
    /\ persisted["a.xlsx"] = 1
\* what holds: the rows in the database were read from a version the file
\* had, by a run of that path that saved them
C26_PersistedWasRead ==
    \A p \in DOMAIN content :
        /\ persisted[p] <= content[p]
        /\ persisted[p] /= 0 => SavedFrom(p, persisted[p]) /= {}

(***************************************************************************)
(* process_balance_file of app/etl, with the database of app/db             *)
(*                                                                          *)
(* One call, statement by statement.  Every call into the database or the   *)
(* event loop either returns or raises; save_balance_rows writes the rows   *)
(* and the metadata of one year in one transaction of its own.              *)
(***************************************************************************)
\* main.py line 71: the years _seed_if_empty writes.  The rows of a year are
\* those of nobody ("none"), of _seed_if_empty or an earlier run ("seed"), or
\* of this call ("run")
SeedYears == {2023, 2024, 2025}
\* the lists of results parse_with_retries returns: one result per year
YearLists ==
    UNION { { AsList(f) : f \in {g \in [1..n -> SeedYears] :
                                   \A a, b \in 1..n : a /= b => g[a] /= g[b]} }
            : n \in 1..Cardinality(SeedYears) }
DatasetUpdated(year) == [type |-> "DATASET_UPDATED", year |-> year]
EtlError == [type |-> "ETL_ERROR"]

IngestInit ==
    /\ TransformOff
    /\ WatcherOff
    /\ RetryOff
    /\ NumberOff
    /\ BrokerOff
    /\ ingest_pc = "parse"
    /\ ingest_results = <<>>
    /\ ingest_at = 0
    /\ ingest_exc = ""
    /\ balance_rows \in [SeedYears -> {"none", "seed"}]
    /\ rows_before = balance_rows
    /\ sources \in {"", "seed"}
    /\ etl_runs = <<>>
    /\ dispatched = <<>>

ingest_rest ==
    <<transform_vars, caller_vars, watcher_vars, retry_vars, number_vars, broker_vars, rows_before>>

\* results = parse_with_retries(path, source_id=source_id)
IngestParses(years) ==
    /\ ingest_pc = "parse"
    /\ ingest_results' = years
    /\ ingest_at' = 1
    /\ ingest_pc' = "save"
    /\ UNCHANGED <<ingest_exc, balance_rows, sources, etl_runs, dispatched, ingest_rest>>
\* a statement of the try block raises
IngestRaises(at, exc) ==
    /\ ingest_pc = at
    /\ ingest_exc' = exc
    /\ ingest_pc' = "except"
    /\ UNCHANGED <<ingest_results, ingest_at, balance_rows, sources, etl_runs, dispatched,
                   ingest_rest>>
\* the year of the result the loop is at
IngestYear == ingest_results[ingest_at]
\* save_balance_rows(result.year, ...): INSERT OR REPLACE and commit
SaveBalanceRows ==
    /\ ingest_pc = "save"
    /\ balance_rows' = [balance_rows EXCEPT ![IngestYear] = "run"]
    /\ ingest_pc' = "dispatch"
    /\ UNCHANGED <<ingest_results, ingest_at, ingest_exc, sources, etl_runs, dispatched,
                   ingest_rest>>
\* dispatch_event({"type": "DATASET_UPDATED", ...}), then the next result
DispatchUpdated ==
    /\ ingest_pc = "dispatch"
    /\ dispatched' = Append(dispatched, DatasetUpdated(IngestYear))
    /\ IF ingest_at < Len(ingest_results)
       THEN ingest_at' = ingest_at + 1 /\ ingest_pc' = "save"
       ELSE ingest_at' = ingest_at /\ ingest_pc' = "upsert"
    /\ UNCHANGED <<ingest_results, ingest_exc, balance_rows, sources, etl_runs, ingest_rest>>
\* upsert_source(first_result.source_id, "balance", path.name, ...)
UpsertSource ==
    /\ ingest_pc = "upsert"
    /\ sources' = "run"
    /\ ingest_pc' = "record"
    /\ UNCHANGED <<ingest_results, ingest_at, ingest_exc, balance_rows, etl_runs, dispatched,
                   ingest_rest>>
\* record_etl_run(..., "SUCCESS", ...)
RecordSuccess ==
    /\ ingest_pc = "record"
    /\ etl_runs' = Append(etl_runs, "SUCCESS")
    /\ ingest_pc' = "ended"
    /\ UNCHANGED <<ingest_results, ingest_at, ingest_exc, balance_rows, sources, dispatched,
                   ingest_rest>>
\* except FileNotFoundError: record_etl_run(..., "WARNING", ...)
RecordWarning ==
    /\ ingest_pc = "except"
    /\ ingest_exc = "FileNotFoundError"
    /\ etl_runs' = Append(etl_runs, "WARNING")
    /\ ingest_pc' = "ended"
    /\ UNCHANGED <<ingest_results, ingest_at, ingest_exc, balance_rows, sources, dispatched,
                   ingest_rest>>
\* except Exception: record_etl_run(..., "ERROR", ...) and the ETL_ERROR event
RecordError ==
    /\ ingest_pc = "except"
    /\ ingest_exc /= "FileNotFoundError"
    /\ etl_runs' = Append(etl_runs, "ERROR")
    /\ dispatched' = Append(dispatched, EtlError)
    /\ ingest_pc' = "ended"
    /\ UNCHANGED <<ingest_results, ingest_at, ingest_exc, balance_rows, sources, ingest_rest>>

\* what parse_with_retries raises, and what the calls after it raise
ParseRaised == \E exc \in ParseErrors \cup {"FileNotFoundError"} : IngestRaises("parse", exc)
SaveRaised == IngestRaises("save", "OperationalError")
DispatchRaised == IngestRaises("dispatch", "RuntimeError")
UpsertRaised == IngestRaises("upsert", "OperationalError")

IngestNext ==
    \/ \E years \in YearLists : IngestParses(years)
    \/ ParseRaised
    \/ SaveBalanceRows
    \/ SaveRaised
    \/ DispatchUpdated
    \/ DispatchRaised
    \/ UpsertSource
    \/ UpsertRaised
    \/ RecordSuccess
    \/ RecordWarning
    \/ RecordError

IngestSpec == IngestInit /\ [][IngestNext]_vars

\* the status of the run the call recorded, "" while it has recorded none
RunStatus == IF etl_runs = <<>> THEN "" ELSE etl_runs[Len(etl_runs)]
\* the rows of every year of the results were saved by this call and the
\* event of the year was dispatched
AllSavedAndDispatched ==
    \A n \in 1..Len(ingest_results) :
        /\ balance_rows[ingest_results[n]] = "run"
        /\ \E e \in 1..Len(dispatched) : dispatched[e] = DatasetUpdated(ingest_results[n])

\* C27 (as the specification states it): when the call has recorded an ERROR
\* or WARNING run, the rows and metadata in the database are those of before
\* the call, whichever statement failed; and a SUCCESS run is recorded only
\* once the rows of every year were saved and its event dispatched.
C27_FailedRunLeavesNoRows ==
    /\ RunStatus \in {"ERROR", "WARNING"} => balance_rows = rows_before
    /\ RunStatus = "SUCCESS" => AllSavedAndDispatched
\* an ERROR run of a workbook of 2024 and 2025: the save of 2025 raised, the
\* rows of 2024 are those this call wrote, and its event went out
C27_EarlierYearLeftWritten ==
    /\ RunStatus = "ERROR"
    /\ ingest_results = <<2024, 2025>>
    /\ ingest_at = 2
    /\ ingest_exc = "OperationalError"
    /\ balance_rows[2024] = "run"
    /\ rows_before[2024] = "seed"
    /\ balance_rows[2025] = rows_before[2025]
    /\ dispatched = <<DatasetUpdated(2024), EtlError>>
\* what holds: a WARNING run, and an ERROR run that failed before its first
\* save, leave the rows as they were; a SUCCESS run is recorded once every
\* year was saved and dispatched and the source upserted
C27_SuccessAfterEverySave ==
    /\ RunStatus = "WARNING" => balance_rows = rows_before
    /\ (RunStatus = "ERROR" /\ ingest_results = <<>>) => balance_rows = rows_before
    /\ RunStatus = "SUCCESS" => AllSavedAndDispatched /\ sources = "run"

(***************************************************************************)
(* EventBroker, _dispatch_event and stream_events of app/main               *)
(*                                                                          *)
(* Events are numbered in the order _dispatch_event is called with them.    *)
(* publish, subscribe and unsubscribe run on the event loop, one at a time; *)
(* a queue made by asyncio.Queue() has no bound, so "await queue.put" puts  *)
(* without suspending and one run of publish is one step.  The threads of   *)
(* the watcher only schedule publish, through run_coroutine_threadsafe.     *)
(***************************************************************************)
\* the calls of _dispatch_event in one behaviour
MaxDispatches == 4
\* the clients that open the event stream in one behaviour
MaxQueues == 2

\* q = asyncio.Queue(): empty; joined is the number of publishes run before
\* it was subscribed, left the number run before it was unsubscribed
NewQueue(publishes) ==
    [items |-> <<>>, taken |-> <<>>, open |-> TRUE, joined |-> publishes, left |-> 0]
\* the members of a list
InList(list) == {list[n] : n \in 1..Len(list)}
\* a variant that puts the event on every queue made
PutOnAll(qs, subs, event) ==
    AsList([q \in 1..Len(qs) |-> [qs[q] EXCEPT !.items = Append(@, event)]])
\* for queue in list(self.subscribers): await queue.put(event)
PutOnEach(qs, subs, event) ==
    AsList([q \in 1..Len(qs) |->
        IF q \in InList(subs) THEN [qs[q] EXCEPT !.items = Append(@, event)] ELSE qs[q]])

BrokerInit ==
    /\ TransformOff
    /\ WatcherOff
    /\ RetryOff
    /\ NumberOff
    /\ IngestOff
    /\ loop = FALSE
    /\ subscribers = <<>>
    /\ queues = <<>>
    /\ ready = <<>>
    /\ published = <<>>
    /\ dropped = {}
    /\ dispatches = 0

broker_rest ==
    <<transform_vars, caller_vars, watcher_vars, retry_vars, number_vars, ingest_vars>>

\* loop = asyncio.get_running_loop()
on_startup ==
    /\ ~loop
    /\ loop' = TRUE
    /\ UNCHANGED <<subscribers, queues, ready, published, dropped, dispatches, broker_rest>>
\* if not loop: return; asyncio.run_coroutine_threadsafe(broker.publish(event), loop)
_dispatch_event ==
    /\ dispatches < MaxDispatches
    /\ dispatches' = dispatches + 1
    /\ IF loop
       THEN ready' = Append(ready, dispatches + 1) /\ dropped' = dropped
       ELSE dropped' = dropped \cup {dispatches + 1} /\ ready' = ready
    /\ UNCHANGED <<loop, subscribers, queues, published, broker_rest>>
\* EventBroker.publish, run by the event loop for the oldest scheduled event
publish ==
    /\ ready /= <<>>
    /\ ready' = Tail(ready)
    /\ published' = Append(published, Head(ready))
    /\ queues' = IF subscribers = <<>> THEN queues
                 ELSE PutOnEach(queues, subscribers, Head(ready))
    /\ UNCHANGED <<loop, subscribers, dropped, dispatches, broker_rest>>
\* EventBroker.subscribe, called by stream_events for a client
subscribe ==
    /\ loop
    /\ Len(queues) < MaxQueues
    /\ queues' = Append(queues, NewQueue(Len(published)))
    /\ subscribers' = Append(subscribers, Len(queues) + 1)
    /\ UNCHANGED <<loop, ready, published, dropped, dispatches, broker_rest>>
\* event = await queue.get() in event_generator, which yields it
QueueGet(q) ==
    /\ queues[q].open
    /\ queues[q].items /= <<>>
    /\ queues' = [queues EXCEPT ![q].items = Tail(@), ![q].taken = Append(@, Head(queues[q].items))]
    /\ UNCHANGED <<loop, subscribers, ready, published, dropped, dispatches, broker_rest>>
\* EventBroker.unsubscribe, in the finally of event_generator
unsubscribe(q) ==
    /\ queues[q].open
    /\ subscribers' = SelectSeq(subscribers, LAMBDA s : s /= q)
    /\ queues' = [queues EXCEPT ![q].open = FALSE, ![q].left = Len(published)]
    /\ UNCHANGED <<loop, ready, published, dropped, dispatches, broker_rest>>
stream_events ==
    \/ subscribe
    \/ \E q \in 1..Len(queues) : QueueGet(q)
    \/ \E q \in 1..Len(queues) : unsubscribe(q)

BrokerNext ==
    \/ on_startup
    \/ _dispatch_event
    \/ publish
    \/ stream_events

BrokerSpec == BrokerInit /\ [][BrokerNext]_vars

\* what was put on a queue since it was made, in order
PutOn(q) == queues[q].taken \o queues[q].items
\* the publishes run while the queue was subscribed
WhileSubscribed(q) ==
    SubSeq(published, queues[q].joined + 1,
           IF queues[q].open THEN Len(published) ELSE queues[q].left)
\* every event that was neither dropped nor published is scheduled, and the
\* publishes run, and will run, in the order of the dispatches
InDispatchOrder(seq) == \A a, b \in 1..Len(seq) : a < b => seq[a] < seq[b]

\* C28: what was put on the queue of a subscriber is, in order and once
\* each, the events publish ran with from its subscription to its
\* unsubscription, so all subscribers receive the events in the order the
\* publishes ran; nothing is put on a queue after unsubscribe; an event
\* published while nobody subscribes, or dispatched before the loop is set,
\* reaches no queue, not even that of a later subscriber.
C28_EachSubscriberInOrder ==
    /\ \A q \in 1..Len(queues) :
          /\ PutOn(q) = WhileSubscribed(q)
          /\ InList(PutOn(q)) \cap dropped = {}
    /\ InList(subscribers) = {q \in 1..Len(queues) : queues[q].open}
    /\ InDispatchOrder(published \o ready)
    /\ InList(published \o ready) \cup dropped = 1..dispatches
    /\ InList(published \o ready) \cap dropped = {}
\* event 1 was dispatched before the loop was set, event 2 published while
\* nobody subscribed, event 3 reached the first subscriber alone, which then
\* unsubscribed, and event 4 the second subscriber alone
C28_LateSubscriberMissesEarlier ==
    /\ dropped = {1}
    /\ published = <<2, 3, 4>>
    /\ Len(queues) = 2
    /\ PutOn(1) = <<3>>
    /\ ~queues[1].open
    /\ PutOn(2) = <<4>>
    /\ queues[2].taken = <<4>>

\* no month cell of the table under header row h holds a value other than 0
NoMonthData(df, h) ==
    LET rows == TableRowsOf(df, h)
    IN  \A c \in 1..Len(df[h]) :
            MonthOf(df, h, c) \in MonthNames => \A r \in rows : parse_number(df[r][c]) = 0

\* C29: a result transform returns has at least one observed month and a
\* last month; when no month cell of its energy table holds a value other
\* than 0, its observed months are the twelve months Ene..Dic and its last
\* month is Dic.
C29_ObservedNeverEmpty ==
    Returned => \A n \in 1..Len(results) :
        /\ results[n].observed_months /= <<>>
        /\ results[n].last_month \in MonthNames
        /\ NoMonthData(SourceOf(results[n]), EnergyHeaderOf(results[n]))
              => /\ results[n].observed_months = MONTH_ORDER
                 /\ results[n].last_month = "Dic"
\* a result of twelve observed months ending in Dic, of a table of three
\* rows whose month cells hold a dash, an explicit 0 or nothing
C29_AllMonthsWithoutData ==
    /\ Returned
    /\ \E n \in 1..Len(results) :
          /\ NoMonthData(SourceOf(results[n]), EnergyHeaderOf(results[n]))
          /\ Cardinality(TableRowsOf(SourceOf(results[n]), EnergyHeaderOf(results[n]))) = 3
          /\ \E r \in TableRowsOf(SourceOf(results[n]), EnergyHeaderOf(results[n])) :
                /\ SourceOf(results[n])[r][2] = Str("-")
                /\ SourceOf(results[n])[r][3] = Num(0)
                /\ SourceOf(results[n])[r][4] = Blank
          /\ Len(results[n].observed_months) = 12
          /\ results[n].last_month = "Dic"

(***************************************************************************)
(* The warnings of a ParseResult                                            *)
(***************************************************************************)
\* what _extract_table gives for header row h of a grid, read as its kind
TableAt(df, h) == extract_table(df, h, IsSales(df, h))
\* the header rows among rows whose tables the result keeps: the first
\* energy table and the first monetary table that could be extracted
KeptHeaders(df, rows) ==
    {h \in rows : /\ TableAt(df, h).ok
                  /\ \A g \in rows :
                        (g < h /\ TableAt(df, g).ok) => IsSales(df, g) /= IsSales(df, h)}
\* the header rows among rows whose tables were extracted and not kept
DroppedHeaders(df, rows) == {h \in rows : TableAt(df, h).ok} \ KeptHeaders(df, rows)
RECURSIVE WarningsAt(_, _)
\* the warnings of the tables under the header rows listed, in their order
WarningsAt(df, headers) ==
    IF headers = <<>> THEN <<>>
    ELSE TableAt(df, Head(headers)).warnings \o WarningsAt(df, Tail(headers))

\* C30 (as the specification states it): the warnings of a result are those
\* of the energy table and of the monetary table it keeps, followed by the
\* report of the missing rows; a table dropped as a duplicate adds none.
C30_WarningsOfKeptTables ==
    Returned => \A n \in 1..Len(results) :
        results[n].warnings
            = WarningsAt(SourceOf(results[n]),
                         SortedSeq(KeptHeaders(SourceOf(results[n]),
                                               UnderTitle(SourceOf(results[n]), results[n].year))))
              \o missing_rows_report(results[n].energy)
\* a result that keeps two tables and carries, besides their warnings and
\* the report, the warning of a row the dropped third table does not have
C30_DroppedTableWarns ==
    /\ Returned
    /\ \E n \in 1..Len(results) :
          /\ Cardinality(KeptHeaders(SourceOf(results[n]),
                                     UnderTitle(SourceOf(results[n]), results[n].year))) = 2
          /\ \E h \in DroppedHeaders(SourceOf(results[n]),
                                     UnderTitle(SourceOf(results[n]), results[n].year)) :
                /\ ~IsSales(SourceOf(results[n]), h)
                /\ \E w \in 1..Len(TableAt(SourceOf(results[n]), h).warnings) :
                      /\ TableAt(SourceOf(results[n]), h).warnings[w] = MetricWarning("regulados")
                      /\ \A g \in KeptHeaders(SourceOf(results[n]),
                                              UnderTitle(SourceOf(results[n]), results[n].year)) :
                            \A v \in 1..Len(TableAt(SourceOf(results[n]), g).warnings) :
                               TableAt(SourceOf(results[n]), g).warnings[v]
                                   /= MetricWarning("regulados")
                /\ Warned(results[n], MetricWarning("regulados"))
          /\ Len(results[n].warnings)
                > Len(WarningsAt(SourceOf(results[n]),
                                 SortedSeq(KeptHeaders(SourceOf(results[n]),
                                               UnderTitle(SourceOf(results[n]), results[n].year)))))
                  + Len(missing_rows_report(results[n].energy))
\* what holds of the warnings: they are those of every table extracted
\* under the title row, kept or dropped, in the order of the header rows,
\* followed by the report of the missing rows
C30_WarningsOfEveryTable ==
    Returned => \A n \in 1..Len(results) :
        results[n].warnings
            = WarningsAt(SourceOf(results[n]),
                         SortedSeq({h \in UnderTitle(SourceOf(results[n]), results[n].year) :
                                       TableAt(SourceOf(results[n]), h).ok}))
              \o missing_rows_report(results[n].energy)
====
